---- MODULE Spec2Model ----
(***************************************************************************)
(* Note classification pipeline (src/src/main.py) with its state store     *)
(* (src/src/state_manager.py), file operations (src/src/file_ops.py) and   *)
(* LLM providers (src/src/llm.py).                                         *)
(*                                                                         *)
(* Texts are sequences of tokens.  A token is one lexical unit of a        *)
(* response text: a bracket, a code fence, a word, a whitespace character, *)
(* the JSON literal true, or the member list of a JSON object.             *)
(***************************************************************************)
EXTENDS Integers, Sequences, FiniteSets, TLC

\* ------------------------------------------------------------------ bounds
\* longest response text enumerated by the text-level specification
MaxLen == 4
\* number of consecutive pipeline runs over the same directories
MaxRuns == 2
\* number of I/O operations (read_file, safe_write_file, save_state) that fail
MaxFaults == 1

\* --------------------------------------------------------- text primitives
LBRACE == "{"
RBRACE == "}"
LBRACK == "["
RBRACK == "]"
\* the three-backquote code fence
FENCE  == "FENCE"
WS     == " "

\* member lists a JSON object of a response may carry:  "mP" stands for
\*   "type":"problems","context":"debugging","tags":["a","b"],"confidence":0.95
\* and so on (see Members below); "mPar" is a filled Problem/Action/Result and
\* "mEmptyPar" is "problem":"","action":"","result":"".
MemberTokens == {"mP", "mLow", "mBad", "mPar", "mEmptyPar"}

\* words that are neither JSON nor whitespace; "json" is also a language tag
WordTokens == {"json", "x"}

\* the scalar JSON literal true
SCALAR == "true"

Min(S) == CHOOSE x \in S : \A y \in S : x <= y
Max(S) == CHOOSE x \in S : \A y \in S : x >= y

\* str.strip()
Strip(t) ==
  LET keep == {i \in 1..Len(t) : t[i] # WS}
  IN  IF keep = {} THEN <<>> ELSE SubSeq(t, Min(keep), Max(keep))

\* str.find(c), 1-based, 0 when absent (Python: 0-based, -1 when absent)
Find(t, c) ==
  LET at == {i \in 1..Len(t) : t[i] = c}
  IN  IF at = {} THEN 0 ELSE Min(at)

\* str.rfind(c), 1-based, 0 when absent
RFind(t, c) ==
  LET at == {i \in 1..Len(t) : t[i] = c}
  IN  IF at = {} THEN 0 ELSE Max(at)

\* index of the first non-whitespace token at or after i (Len(t)+1 if none)
SkipWs(t, i) ==
  LET at == {j \in i..Len(t) : t[j] # WS}
  IN  IF at = {} THEN Len(t) + 1 ELSE Min(at)

StartsJson(t) == Len(t) > 0 /\ t[1] \in {LBRACE, LBRACK}

\* ------------------------------------------------------------- JSON values
\* A parsed JSON value: kind is "object", "array" or "scalar"; tok is the
\* member token of an object ("" for the empty object), items the element
\* values of an array.
JObject(m)  == [kind |-> "object", tok |-> m,  items |-> <<>>]
JArray(vs)  == [kind |-> "array",  tok |-> "", items |-> vs]
JScalar     == [kind |-> "scalar", tok |-> "", items |-> <<>>]

ParseFail == [ok |-> FALSE, val |-> JScalar, next |-> 0]
Parsed(v, n) == [ok |-> TRUE, val |-> v, next |-> n]

\* the token at position i, or "" past the end
At(t, i) == IF i >= 1 /\ i <= Len(t) THEN t[i] ELSE ""

\* json.JSONDecoder.raw_decode: one value starting at position i
RECURSIVE ParseValue(_, _)
ParseValue(t, i) ==
  CASE At(t, i) = SCALAR -> Parsed(JScalar, i + 1)
    [] At(t, i) = LBRACE ->
         LET j == SkipWs(t, i + 1) IN
         IF At(t, j) = RBRACE THEN Parsed(JObject(""), j + 1)
         ELSE IF At(t, j) \in MemberTokens
              THEN LET k == SkipWs(t, j + 1) IN
                   IF At(t, k) = RBRACE
                   THEN Parsed(JObject(t[j]), k + 1)
                   ELSE ParseFail
              ELSE ParseFail
    [] At(t, i) = LBRACK ->
         LET j == SkipWs(t, i + 1) IN
         IF At(t, j) = RBRACK THEN Parsed(JArray(<<>>), j + 1)
         ELSE LET r == ParseValue(t, j) IN
              IF r.ok
              THEN LET k == SkipWs(t, r.next) IN
                   IF At(t, k) = RBRACK
                   THEN Parsed(JArray(<<r.val>>), k + 1)
                   ELSE ParseFail
              ELSE ParseFail
    [] OTHER -> ParseFail

\* json.loads(text): leading and trailing whitespace skipped, one value, no
\* extra data; ok = FALSE stands for json.JSONDecodeError
WholeText(t, r) == IF r.ok /\ SkipWs(t, r.next) = Len(t) + 1 THEN r ELSE ParseFail
JsonLoads(t) == WholeText(t, ParseValue(t, SkipWs(t, 1)))

JsonOk(t) == JsonLoads(t).ok

\* the text "{}" that _call_llm and _call_api return on failure
EmptyJsonText == <<LBRACE, RBRACE>>

\* ------------------------------------------------ AntigravityLLM._clean_json
LangTags == {<<"json">>, <<"json5">>, <<"text">>, <<"code">>}

\* re.findall(fence (.*?) fence, text, re.DOTALL): the fences pair up from the
\* left (1st with 2nd, 3rd with 4th, ...), each match is the text in between
FencePositions(t) == {i \in 1..Len(t) : t[i] = FENCE}

RECURSIVE SortedSeq(_)
SortedSeq(S) == IF S = {} THEN <<>> ELSE <<Min(S)>> \o SortedSeq(S \ {Min(S)})

FencedBlocks(t) ==
  LET fp == SortedSeq(FencePositions(t))
  IN  [k \in 1..(Len(fp) \div 2) |-> SubSeq(t, fp[2 * k - 1] + 1, fp[2 * k] - 1)]

\* one fenced block with an optional leading language tag removed
StripLangTag(match) ==
  LET cm == Strip(match)
      ws == Find(cm, WS)
  IN  IF StartsJson(cm) \/ ws = 0 THEN cm
      ELSE LET first == SubSeq(cm, 1, ws - 1)
               rest  == SubSeq(cm, SkipWs(cm, ws), Len(cm))
           IN  IF first \in LangTags \/ StartsJson(Strip(rest))
               THEN Strip(rest) ELSE cm

LooksLikeJson(cm) ==
  Len(cm) > 0 /\
  \/ cm[1] = LBRACE /\ cm[Len(cm)] = RBRACE
  \/ cm[1] = LBRACK /\ cm[Len(cm)] = RBRACK

BlockAccepted(match) ==
  LooksLikeJson(StripLangTag(match)) /\ JsonOk(StripLangTag(match))

\* a phase 2 that returns the span without trying to parse it
BraceSpan_unchecked(text) ==
  LET t == Strip(text)
      first_brace   == Find(t, LBRACE)
      first_bracket == Find(t, LBRACK)
      is_object == first_brace # 0 /\ (first_bracket = 0 \/ first_brace < first_bracket)
      start == IF is_object THEN first_brace ELSE first_bracket
      end   == IF is_object THEN RFind(t, RBRACE) ELSE RFind(t, RBRACK)
  IN  IF start # 0 /\ end # 0 /\ end > start
      THEN SubSeq(t, start, end)
      ELSE t

\* phase 2: first "{" or "[" to the last closing bracket of the same kind
BraceSpan(text) ==
  LET t == Strip(text)
      first_brace   == Find(t, LBRACE)
      first_bracket == Find(t, LBRACK)
      is_object == first_brace # 0 /\ (first_bracket = 0 \/ first_brace < first_bracket)
      start == IF is_object THEN first_brace ELSE first_bracket
      end   == IF is_object THEN RFind(t, RBRACE) ELSE RFind(t, RBRACK)
  IN  IF start # 0 /\ end # 0 /\ end > start /\ JsonOk(SubSeq(t, start, end))
      THEN SubSeq(t, start, end)
      ELSE t

clean_json(text) ==
  LET blocks == FencedBlocks(text)
      good   == {k \in 1..Len(blocks) : BlockAccepted(blocks[k])}
  IN  IF good # {} THEN StripLangTag(blocks[Min(good)]) ELSE BraceSpan(text)

\* ------------------------------------------------------------ Python values
\* A field value of a mapping: t is its Python type, s its string content,
\* n its numeric content in hundredths (0.95 is 95), l its list elements.
Str(x)   == [t |-> "str",  s |-> x,  n |-> 0, l |-> <<>>]
Num(x)   == [t |-> "num",  s |-> "", n |-> x, l |-> <<>>]
List(x)  == [t |-> "list", s |-> "", n |-> 0, l |-> x]
None     == [t |-> "none", s |-> "", n |-> 0, l |-> <<>>]
Bool(b)  == [t |-> "bool", s |-> "", n |-> IF b THEN 1 ELSE 0, l |-> <<>>]
\* an int that json.loads read from a literal beyond the range of float
Huge     == [t |-> "huge", s |-> "", n |-> 0, l |-> <<>>]

\* the mapping with no key
EmptyMap == [k \in {} |-> None]

\* dict.get(k) and d[k] = v
Get(m, k) == IF k \in DOMAIN m THEN m[k] ELSE None
Put(m, k, v) == [x \in (DOMAIN m) \cup {k} |-> IF x = k THEN v ELSE m[x]]

\* the mapping a member token stands for
Members(tok) ==
  CASE tok = "mP" ->
         [type |-> Str("problems"), context |-> Str("debugging"),
          tags |-> List(<<Str("a"), Str("b")>>), confidence |-> Num(95)]
    [] tok = "mLow" ->
         [type |-> Str("reference"), context |-> Str("work"),
          tags |-> List(<<>>), confidence |-> Num(50)]
    [] tok = "mBad" ->
         [type |-> Str("nonsense"), tags |-> Str("t"), confidence |-> Str("high")]
    [] tok = "mPar" ->
         [problem |-> Str("p"), action |-> Str("a"), result |-> Str("r")]
    [] tok = "mEmptyPar" ->
         [problem |-> Str(""), action |-> Str(""), result |-> Str("")]
    [] tok = "mMockProblems" ->
         [type |-> Str("problems"), context |-> Str("debugging"),
          tags |-> List(<<Str("mock_error"), Str("fix")>>), confidence |-> Num(95)]
    [] tok = "mMockReference" ->
         [type |-> Str("reference"), context |-> Str("work"),
          tags |-> List(<<Str("mock_ref"), Str("docs")>>), confidence |-> Num(95)]
    [] tok = "mMockThinking" ->
         [type |-> Str("thinking"), context |-> Str("personal"),
          tags |-> List(<<Str("mock_thought")>>), confidence |-> Num(95)]
    [] tok = "mMockInbox" ->
         [type |-> Str("inbox"), context |-> Str("practice"),
          tags |-> List(<<Str("mock_random")>>), confidence |-> Num(50)]
    [] tok = "mMockPar" ->
         [problem |-> Str("Mock problem extracted from content"),
          action |-> Str("Mock action taken"), result |-> Str("Mock result achieved")]

\* the mapping of a parsed JSON object
MapOf(val) == IF val.tok = "" THEN EmptyMap ELSE Members(val.tok)

\* {} and {"problem": "", "action": "", "result": ""}
EmptyDict == JObject("")
EmptyPar  == JObject("mEmptyPar")

\* ------------------------------------------------------------------ config
VALID_TYPES    == {"reference", "problems", "thinking", "inbox"}
VALID_CONTEXTS == {"personal", "work", "practice", "research", "debugging"}
\* CONFIDENCE_THRESHOLD = 0.6, in hundredths
CONFIDENCE_THRESHOLD == 60

\* ------------------------------------------------- validate_classification
\* float(x) with ValueError / TypeError giving 0.0
NumericStrings == {"0.9"}
ToFloat(v) ==
  CASE v.t = "num" -> v.n
    [] v.t = "bool" -> 100 * v.n
    [] v.t = "str" /\ v.s \in NumericStrings -> 90
    [] OTHER -> 0

\* float(x) raises OverflowError, which the except clause does not name
float_overflows(v) == v.t = "huge"

\* str(x)
ToStr(v) ==
  CASE v.t = "str" -> v.s
    [] v.t = "num" -> IF v.n = 95 THEN "0.95" ELSE IF v.n = 50 THEN "0.5" ELSE "0.0"
    [] v.t = "none" -> "None"
    [] v.t = "bool" -> IF v.n = 1 THEN "True" ELSE "False"
    [] v.t = "huge" -> "1e400"
    [] OTHER -> "[]"

\* a slice that keeps every element
FirstFive_all(l) == l

FirstFive(l) == SubSeq(l, 1, IF Len(l) < 5 THEN Len(l) ELSE 5)

\* the fallback returned for a non-mapping
ClassificationFallback ==
  [type |-> Str("inbox"), context |-> Str("practice"),
   tags |-> List(<<>>), confidence |-> Num(0)]

\* lines 516-518: type not in VALID_TYPES
validate_type(d) ==
  IF Get(d, "type").t = "str" /\ Get(d, "type").s \in VALID_TYPES
  THEN d ELSE Put(d, "type", Str("inbox"))

\* lines 520-522: context not in VALID_CONTEXTS
validate_context(d) ==
  IF Get(d, "context").t = "str" /\ Get(d, "context").s \in VALID_CONTEXTS
  THEN d ELSE Put(d, "context", Str("practice"))

\* lines 524-527: tags not a list; at most 5, each as a string
StrEach(l) == [i \in 1..Len(l) |-> Str(ToStr(l[i]))]
validate_tags(d) ==
  IF Get(d, "tags").t = "list"
  THEN Put(d, "tags", List(StrEach(FirstFive(d["tags"].l))))
  ELSE Put(d, "tags", List(<<>>))

\* lines 529-533: float(data.get("confidence", 0.0)), 0.0 when it fails
confidence_of(d) == IF "confidence" \in DOMAIN d THEN ToFloat(d["confidence"]) ELSE 0

\* a rule that stores the confidence and never changes the type
apply_confidence_keep_type(d, conf) == Put(d, "confidence", Num(conf))

\* lines 535-539: the confidence rule, then the coerced confidence is stored
apply_confidence(d, conf) ==
  Put(IF conf < CONFIDENCE_THRESHOLD THEN Put(d, "type", Str("inbox")) ELSE d,
      "confidence", Num(conf))

validate_mapping(d) == apply_confidence(d, confidence_of(d))

\* lines 516-540 on a mapping whose confidence float() accepts
validate_dict(d) == validate_mapping(validate_tags(validate_context(validate_type(d))))

validate_classification(data) ==
  IF data.kind # "object" THEN ClassificationFallback
  ELSE validate_dict(MapOf(data))

\* A call of validate_classification on an argument that is a mapping m
\* (is_dict) or anything else: the exception it raises or the value it
\* returns, and the argument mapping after the call.  The function assigns
\* into its argument and returns it; float() is reached after type, context
\* and tags were assigned.
validate_call(is_dict, m) ==
  IF ~is_dict
  THEN [called |-> TRUE, raised |-> "none", value |-> ClassificationFallback,
        arg_after |-> m]
  ELSE IF "confidence" \in DOMAIN m /\ float_overflows(m["confidence"])
  THEN [called |-> TRUE, raised |-> "OverflowError", value |-> EmptyMap,
        arg_after |-> validate_tags(validate_context(validate_type(m)))]
  ELSE [called |-> TRUE, raised |-> "none", value |-> validate_dict(m),
        arg_after |-> validate_dict(m)]

\* --------------------------------------------------------- provider results
\* what a call of classify_note / extract_par does: it returns a value
\* (raised = "none") or raises the named exception
Return(v) == [raised |-> "none", value |-> v]
Raise(e)  == [raised |-> e, value |-> EmptyDict]

\* -------------------------------------------------- AntigravityLLM._call_api
\* The endpoint's answer to requests.post: status is the HTTP status, or 0
\* when the request itself raised; envelope is the shape of a 200 body
\* ("candidates": {candidates: [...]}, "wrapped": {response: {candidates: [...]}},
\* "none": no candidates, "malformed": candidates without content/parts,
\* "notjson": response.json() raises); parts are the texts of the parts.
EndpointAnswer(st, env, ps) == [status |-> st, envelope |-> env, parts |-> ps]

RECURSIVE Concat(_)
Concat(ps) == IF ps = <<>> THEN <<>> ELSE Head(ps) \o Concat(Tail(ps))

\* the body of the try block: the text it returns or the exception it raises
call_api_try(ans) ==
  CASE ans.status = 0   -> [raised |-> "ConnectionError", text |-> <<>>]
    [] ans.status = 401 -> [raised |-> "PermissionError", text |-> <<>>]
    [] ans.status # 200 -> [raised |-> "none", text |-> EmptyJsonText]
    [] ans.envelope = "notjson" -> [raised |-> "ValueError", text |-> <<>>]
    [] ans.envelope \in {"candidates", "wrapped"} ->
         IF Concat(ans.parts) = <<>>
         THEN [raised |-> "none", text |-> EmptyJsonText]
         ELSE [raised |-> "none", text |-> Concat(ans.parts)]
    [] OTHER -> [raised |-> "none", text |-> EmptyJsonText]

\* except Exception: return "{}"  (PermissionError is an Exception)
call_api(ans) ==
  LET r == call_api_try(ans)
  IN  IF r.raised # "none" THEN EmptyJsonText ELSE r.text

\* a parse without the except clause: the decode error leaves the operation
AntigravityParse_unguarded(op, response_text) ==
  LET r == JsonLoads(clean_json(response_text))
  IN  IF r.ok THEN Return(r.val) ELSE Raise("JSONDecodeError")

\* AntigravityLLM.classify_note / extract_par on the text _call_api returned
AntigravityParse(op, response_text) ==
  LET r == JsonLoads(clean_json(response_text))
  IN  IF r.ok THEN Return(r.val)
      ELSE Return(IF op = "classify" THEN EmptyDict ELSE EmptyPar)

AntigravityCall(op, ans) == AntigravityParse(op, call_api(ans))

\* ProductionLLM.classify_note / extract_par on the text _call_llm returned
ProductionParse(op, response_text) ==
  LET r == JsonLoads(response_text)
  IN  IF r.ok THEN Return(r.val)
      ELSE Return(IF op = "classify" THEN EmptyDict ELSE EmptyPar)

\* ------------------------------------------------------------------ MockLLM
\* A text (the content of a note, a relative path) is a sequence of units: a
\* word ("error", "ERROR", "Failure", "api", "think", "problem", "Debug",
\* "reference"), a character "x", a run of 3998 characters x ("run"), a
\* carriage return, a line feed, a line of three dashes, or what content[:n]
\* left of a unit it cut ("frag": at most two characters of it).
\* str.lower() of a unit
lower(u) ==
  CASE u = "ERROR" -> "error"
    [] u = "Failure" -> "failure"
    [] u = "Debug" -> "debug"
    [] OTHER -> u

\* keyword in str.lower() of the text
Has(keyword, txt) ==
  \E i \in DOMAIN txt :
    \/ lower(txt[i]) = keyword
    \/ lower(txt[i]) = "failure" /\ keyword = "fail"

\* a classifier that tries the reference rule first
MockClassify_reference_first(content, path) ==
  IF Has("api", content) \/ Has("guide", content) \/ Has("reference", path)
  THEN Return(JObject("mMockReference"))
  ELSE IF Has("error", content) \/ Has("fail", content) \/ Has("debug", path)
  THEN Return(JObject("mMockProblems"))
  ELSE IF Has("think", content) \/ Has("reflect", content)
  THEN Return(JObject("mMockThinking"))
  ELSE Return(JObject("mMockInbox"))

MockClassify(content, path) ==
  IF Has("error", content) \/ Has("fail", content) \/ Has("debug", path)
  THEN Return(JObject("mMockProblems"))
  ELSE IF Has("api", content) \/ Has("guide", content) \/ Has("reference", path)
  THEN Return(JObject("mMockReference"))
  ELSE IF Has("think", content) \/ Has("reflect", content)
  THEN Return(JObject("mMockThinking"))
  ELSE Return(JObject("mMockInbox"))

MockExtractPar(content, path) ==
  IF Has("problem", content) THEN Return(JObject("mMockPar")) ELSE Return(EmptyPar)

\* ------------------------------------------------------------ the input dir
\* number of .md files under the input directory
NumFiles == 2

\* get_markdown_files: the sorted recursive listing, as indexes 1..NumFiles
Listing == [i \in 1..NumFiles |-> i]

\* the bytes of file i: every other file is longer than MAX_CONTENT_CHARS and
\* holds a keyword beyond them
FileWords(i) == IF i % 2 = 1 THEN <<"error", "CR", "LF", "run", "problem">> ELSE <<>>

\* read_file: open(path, 'r', encoding='utf-8').read(), which gives a line feed
\* for every carriage return + line feed and for every lone carriage return
RECURSIVE read_file(_)
read_file(bytes) ==
  IF bytes = <<>> THEN <<>>
  ELSE IF bytes[1] = "CR"
  THEN <<"LF">> \o read_file(IF Len(bytes) > 1 /\ bytes[2] = "LF"
                             THEN SubSeq(bytes, 3, Len(bytes))
                             ELSE Tail(bytes))
  ELSE <<bytes[1]>> \o read_file(Tail(bytes))

\* tf.write(content) on a file opened in text mode 'w': every line feed is
\* written as os.linesep
RECURSIVE write_text(_, _)
write_text(content, linesep) ==
  IF content = <<>> THEN <<>>
  ELSE (IF content[1] = "LF" THEN linesep ELSE <<content[1]>>)
         \o write_text(Tail(content), linesep)

\* prepend_frontmatter: "---\n" + yaml.dump(metadata).strip() + "\n---\n\n" + content
prepend_frontmatter(content, metadata) ==
  <<"---", "LF", metadata, "LF", "---", "LF", "LF">> \o content

\* config.py
MAX_CONTENT_CHARS == 4000

\* len() of a unit
CharLen(u) ==
  CASE u \in {"x", "CR", "LF"} -> 1
    [] u = "---" -> 3
    [] u = "api" -> 3
    [] u \in {"error", "ERROR", "think", "Debug"} -> 5
    [] u \in {"Failure", "problem"} -> 7
    [] u = "reference" -> 9
    [] u = "run" -> 3998
    [] OTHER -> 2

\* content[:n]
RECURSIVE Slice(_, _)
Slice(content, n) ==
  IF content = <<>> \/ n = 0 THEN <<>>
  ELSE IF CharLen(content[1]) <= n
  THEN <<content[1]>> \o Slice(Tail(content), n - CharLen(content[1]))
  ELSE <<IF content[1] = "run" THEN "x" ELSE "frag">>

\* a call that hands the whole note to classify_note too
call_content_full(op, bytes) == read_file(bytes)

\* main lines 125-142 and 213: what classify_note and extract_par are given
\* of the note
call_content(op, bytes) ==
  IF op = "classify" THEN Slice(read_file(bytes), MAX_CONTENT_CHARS)
  ELSE read_file(bytes)


\* ------------------------------------------------------------- StateManager
Record(status, classification, timestamp) ==
  [status |-> status, classification |-> classification, timestamp |-> timestamp]

\* the state document on disk: absent, or a file whose form is "json" (a
\* document written by save_state, doc being its processed_files), "truncated"
\* (text that json.load rejects) or "undecodable" (bytes that are no UTF-8);
\* mtime counts the saves
NoDocument == [exists |-> FALSE, mtime |-> 0, doc |-> EmptyMap, form |-> "none"]

\* StateManager._load_state: processed_files of the loaded state
load_state(d) == IF d.exists /\ d.form = "json" THEN d.doc ELSE EmptyMap

\* json.load(f) raises UnicodeDecodeError, which _load_state does not catch
load_raises(d) == d.exists /\ d.form = "undecodable"

\* a lookup that accepts a record of any status
is_processed_any_status(st, file_name) == file_name \in DOMAIN st

\* a lookup that never finds a completed record
is_processed_never(st, file_name) == FALSE

\* StateManager.is_processed
is_processed(st, file_name) ==
  file_name \in DOMAIN st /\ st[file_name].status = "completed"

\* StateManager.get_file_state
get_file_state(st, file_name) ==
  IF file_name \in DOMAIN st THEN st[file_name] ELSE EmptyMap

\* the in-memory state after mark_processed's assignment
mark_processed(st, d, file_name, status, classification) ==
  Put(st, file_name, Record(status, classification, IF d.exists THEN d.mtime ELSE 0))

\* a save that leaves the state document as it is
save_state_lost(st, d) == d

\* StateManager.save_state: the document replaces the file in one rename
save_state(st, d) == [exists |-> TRUE, mtime |-> d.mtime + 1, doc |-> st, form |-> "json"]

CompletedNames(st) == {n \in DOMAIN st : st[n].status = "completed"}

\* ------------------------------------------------------------ get_llm_client
\* env: auth = AntigravityLLM() can be constructed, openrouter / groq = the
\* API key is set
get_llm_client(env) ==
  IF env.auth THEN "AntigravityLLM"
  ELSE IF env.openrouter THEN "ProductionLLM"
  ELSE "MockLLM"

\* ------------------------------------------------- main: provider fallback
\* The handler of the classify / extract loop for an exception of the
\* provider call: what the driver does ("switch": continue the loop on
\* client, "exit": sys.exit(1), "file_error": the exception reaches the
\* per-file handler) and the provider afterwards.
Decision(what, client) == [do |-> what, client |-> client]

\* a handler that goes back to the first provider when GroqLLM is exhausted
on_blocking_io_promote(client, groq_key, groq_init_ok, local_init_ok) ==
  IF client = "AntigravityLLM" /\ groq_key /\ groq_init_ok
  THEN Decision("switch", "GroqLLM")
  ELSE IF client = "GroqLLM"
       THEN Decision("switch", "AntigravityLLM")
       ELSE IF client # "LocalLLM" /\ local_init_ok
            THEN Decision("switch", "LocalLLM")
            ELSE Decision("exit", client)

\* a handler that gives up when the Groq tier is not available
on_blocking_io_no_skip(client, groq_key, groq_init_ok, local_init_ok) ==
  IF client = "AntigravityLLM"
  THEN IF groq_key /\ groq_init_ok THEN Decision("switch", "GroqLLM")
       ELSE Decision("exit", client)
  ELSE IF client # "LocalLLM" /\ local_init_ok
       THEN Decision("switch", "LocalLLM")
       ELSE Decision("exit", client)

\* main lines 144-174 and 215-242: except BlockingIOError
on_blocking_io(client, groq_key, groq_init_ok, local_init_ok) ==
  IF client = "AntigravityLLM" /\ groq_key /\ groq_init_ok
  THEN Decision("switch", "GroqLLM")
  ELSE IF client # "LocalLLM"
       THEN IF local_init_ok THEN Decision("switch", "LocalLLM")
            ELSE Decision("exit", client)
       ELSE Decision("exit", client)

\* a handler that tries the provider again when there is no later one
on_provider_error_retry(client, local_init_ok) ==
  IF client = "GroqLLM" /\ local_init_ok THEN Decision("switch", "LocalLLM")
  ELSE Decision("switch", client)

\* main lines 176-194 and 244-259: except (RuntimeError, PermissionError,
\* TimeoutError)
on_provider_error(client, local_init_ok) ==
  IF client = "GroqLLM"
  THEN IF local_init_ok THEN Decision("switch", "LocalLLM")
       ELSE Decision("exit", client)
  ELSE Decision("exit", client)

\* a handler whose exit on the last provider is absorbed by the per-file handler
on_exception_absorb(exc, client, groq_key, groq_init_ok, local_init_ok) ==
  IF client = "LocalLLM" THEN Decision("file_error", client)
  ELSE IF exc = "BlockingIOError"
       THEN on_blocking_io(client, groq_key, groq_init_ok, local_init_ok)
       ELSE on_provider_error(client, local_init_ok)

on_exception(exc, client, groq_key, groq_init_ok, local_init_ok) ==
  CASE exc = "BlockingIOError" ->
         on_blocking_io(client, groq_key, groq_init_ok, local_init_ok)
    [] exc \in {"RuntimeError", "PermissionError", "TimeoutError"} ->
         on_provider_error(client, local_init_ok)
    [] OTHER -> Decision("file_error", client)

\* ---------------------------------------------------- provider call inputs
\* the exceptions a provider of the fallback chain may raise out of
\* classify_note / extract_par
ProviderSignals == {"BlockingIOError", "PermissionError", "RuntimeError", "TimeoutError"}

ChainProviders == {"AntigravityLLM", "GroqLLM", "LocalLLM"}

\* response texts the endpoints give during a pipeline run
PipelineTexts ==
  { <<LBRACE, "mP", RBRACE>>,
    <<"x">> }

\* answers of the Antigravity endpoint during a pipeline run
AntigravityAnswers ==
  {EndpointAnswer(200, "candidates", <<t>>) : t \in PipelineTexts}
    \cup {EndpointAnswer(st, "error", <<>>) : st \in {0, 401, 429, 500}}

\* ProductionLLM._call_llm
max_retries == 5
base_delay == 5

\* what client.chat.completions.create does in one attempt: a completion
\* (status 200) or RateLimitError / APIError (with status_code) / Exception
CompletionAnswers ==
  {EndpointAnswer(200, "completion", <<t>>) : t \in PipelineTexts}
    \cup { EndpointAnswer(429, "RateLimitError", <<>>),
           EndpointAnswer(429, "APIError", <<>>),
           EndpointAnswer(500, "APIError", <<>>),
           EndpointAnswer(0, "Exception", <<>>) }

RECURSIVE Pow2(_)
Pow2(n) == IF n = 0 THEN 1 ELSE 2 * Pow2(n - 1)

\* a retry loop that also retries on an APIError that is no rate limit
llm_attempt_any_api_error(attempt, ans) ==
  IF ans.envelope = "completion"
  THEN [done |-> TRUE, text |-> ans.parts[1], wait |-> 0]
  ELSE IF ans.envelope \in {"RateLimitError", "APIError"}
  THEN [done |-> attempt + 1 >= max_retries, text |-> EmptyJsonText,
        wait |-> base_delay * Pow2(attempt)]
  ELSE [done |-> TRUE, text |-> EmptyJsonText, wait |-> 0]

\* one iteration of the for loop of _call_llm, attempt = 0..max_retries-1:
\* done = the call returns text; otherwise it sleeps wait seconds and the
\* loop goes on (and returns "{}" when that was the last iteration)
llm_attempt(attempt, ans) ==
  LET rate_limited == ans.envelope = "RateLimitError"
                        \/ (ans.envelope = "APIError" /\ ans.status = 429)
      last == attempt + 1 >= max_retries
  IN  IF ans.envelope = "completion"
      THEN [done |-> TRUE, text |-> ans.parts[1], wait |-> 0]
      ELSE IF rate_limited
      THEN [done |-> last, text |-> EmptyJsonText, wait |-> base_delay * Pow2(attempt)]
      ELSE [done |-> TRUE, text |-> EmptyJsonText, wait |-> 0]

\* -------------------------------------------------------------------- state
VARIABLES
  run,             \* number of the current pipeline run
  env,             \* the environment: which credentials are present, and
                   \* the layout of the input directory
  pc,              \* position of main: "start", "loop", "classify", "extract",
                   \* "finished", "exited"; "off" when no pipeline runs
  idx,             \* position in the listing of the file being handled
  llm_client,      \* class of the provider object main holds
  state,           \* StateManager.state["processed_files"]
  disk,            \* the state document on disk
  kb,              \* classified store: <<type, file name>> -> content
  par,             \* summary store: stem -> summary document
  classification,  \* validated classification of the file in flight
  count_processed, \* main's counter of completed files
  attempt,         \* loop variable of ProductionLLM._call_llm
  tries,           \* the rate-limited attempts of the _call_llm in progress:
                   \* the answer and the seconds slept after it
  switches,        \* the provider switches main made in this run, in order
  last_call,       \* the latest classify_note / extract_par call for the file
                   \* at idx and what main did with its outcome
  exit_status,     \* -1 while running, else the process exit status
  calls,           \* a classify_note / extract_par call was issued in this run
  writes,          \* kb, summaries or state document were written in this run
  done_at_start,   \* file names the loaded state had completed
  faults,          \* I/O operations that failed so far
  text,            \* a response text under test
  out,             \* what the providers made of text
  data,            \* an argument of validate_classification, before the call
  result,          \* what validate_classification did with data
  sm,              \* a mark_processed call in progress on the state document
  fs,              \* a safe_write_file call in progress and the files it touches
  lk,              \* the lock file and the processes started against it
  killed           \* position in the listing at which the latest interrupted
                   \* run was interrupted, 0 when no run was

vars == <<run, env, pc, idx, llm_client, state, disk, kb, par, classification,
          count_processed, attempt, tries, switches, last_call, exit_status,
          calls, writes, done_at_start, faults, text, out, data, result, sm, fs, lk, killed>>

\* the last file of the listing lies in a subdirectory and has the base name
\* of the first: with three files or more, or when the input directory is
\* nested
InSubdir(i) == i = NumFiles /\ (NumFiles > 2 \/ env.nested)

\* file_path.name
FileName(i) == IF InSubdir(i) THEN 1 ELSE i

\* the words of the relative path of file i
PathWords(i) == IF InSubdir(i) THEN <<"reference">> ELSE <<>>

\* whether an I/O operation succeeds
IoChoices == IF faults < MaxFaults THEN BOOLEAN ELSE {TRUE}

NoCall ==
  [client |-> "", op |-> "", file |-> 0, content |-> <<>>,
   answer |-> EndpointAnswer(0, "", <<>>),
   outcome |-> Return(EmptyDict), attempts |-> 0, tries |-> <<>>,
   groq_ok |-> TRUE, local_ok |-> TRUE, handled |-> ""]

NoOut == [op |-> "", antigravity |-> Return(EmptyDict), production |-> Return(EmptyDict)]

NoData == [is_dict |-> FALSE, map |-> EmptyMap]
NoResult == [called |-> FALSE, raised |-> "none", value |-> EmptyMap, arg_after |-> EmptyMap]

\* nested = two files of the input directory share a base name
\* (the OpenRouter key is read only when Antigravity cannot be constructed, the
\* Groq key only after AntigravityLLM signalled exhaustion)
Envs ==
  {e \in [auth : BOOLEAN, openrouter : BOOLEAN, groq : BOOLEAN, nested : {FALSE}] :
     /\ e.auth => ~e.openrouter
     /\ ~e.auth => ~e.groq}

PipelineIdle ==
  /\ run = 1
  /\ idx = 0
  /\ llm_client = ""
  /\ state = EmptyMap
  /\ disk = NoDocument
  /\ kb = EmptyMap
  /\ par = EmptyMap
  /\ classification = EmptyMap
  /\ count_processed = 0
  /\ attempt = 0
  /\ tries = <<>>
  /\ switches = <<>>
  /\ last_call = NoCall
  /\ exit_status = -1
  /\ calls = FALSE
  /\ writes = FALSE
  /\ done_at_start = {}
  /\ faults = 0

Init ==
  /\ PipelineIdle
  /\ data = NoData /\ result = NoResult
  /\ lk = [pc |-> "idle"] /\ killed = 0
  /\ sm = [pc |-> "idle"]
  /\ fs = [pc |-> "idle"]
  /\ env \in Envs
  /\ pc = "start"
  /\ text = <<>>
  /\ out = NoOut

\* ----------------------------------------------------------- main, per file
\* a loop that leaves out the file after the one in hand
Advance_over ==
  /\ pc' = "loop"
  /\ idx' = idx + 2
  /\ classification' = EmptyMap

\* the for loop goes to the next file
Advance ==
  /\ pc' = "loop"
  /\ idx' = idx + 1
  /\ classification' = EmptyMap

\* except Exception: log, continue with the next file
FileError == Advance

\* main lines 196-207: validate, prepend the frontmatter, write to kb/<type>/
WriteClassified(c, write_ok) ==
      IF write_ok
      THEN /\ kb' = Put(kb, <<c["type"].s, FileName(idx)>>, [meta |-> c, body |-> idx])
           /\ writes' = TRUE
           /\ classification' = c
           /\ pc' = "extract"
           /\ UNCHANGED <<idx, state, disk, par, count_processed, llm_client,
                          exit_status, faults>>
      ELSE /\ FileError
           /\ faults' = faults + 1
           /\ UNCHANGED <<kb, writes, state, disk, par, count_processed, llm_client,
                          exit_status>>

\* a driver for which an empty classification is a failure of the file
AfterClassify_reject_empty(value, write_ok) ==
  IF value = EmptyDict
  THEN /\ FileError
       /\ UNCHANGED <<kb, writes, state, disk, par, count_processed, llm_client,
                      exit_status, faults>>
  ELSE WriteClassified(validate_classification(value), write_ok)

AfterClassify(value, write_ok) == WriteClassified(validate_classification(value), write_ok)

\* a driver that marks the file completed before it writes the summary
AfterExtract_mark_first(value, write_ok, save_ok) ==
  /\ state' = mark_processed(state, disk, FileName(idx), "completed", classification)
  /\ disk' = save_state(state', disk)
  /\ writes' = TRUE
  /\ Advance
  /\ IF write_ok
     THEN /\ par' = Put(par, FileName(idx), value)
          /\ count_processed' = count_processed + 1
          /\ UNCHANGED faults
     ELSE /\ faults' = faults + 1
          /\ UNCHANGED <<par, count_processed>>
  /\ UNCHANGED <<kb, llm_client, exit_status>>

\* main lines 261-278: write the summary, mark the file completed
AfterExtract(value, write_ok, save_ok) ==
  IF ~write_ok
  THEN /\ FileError
       /\ faults' = faults + 1
       /\ UNCHANGED <<kb, writes, state, disk, par, count_processed, llm_client, exit_status>>
  ELSE /\ par' = Put(par, FileName(idx), value)
       /\ state' = mark_processed(state, disk, FileName(idx), "completed", classification)
       /\ Advance
       /\ IF save_ok
          THEN /\ disk' = save_state(state', disk)
               /\ writes' = TRUE
               /\ count_processed' = count_processed + 1
               /\ UNCHANGED faults
          ELSE /\ writes' = TRUE
               /\ faults' = faults + 1
               /\ UNCHANGED <<disk, count_processed>>
       /\ UNCHANGED <<kb, llm_client, exit_status>>

\* what main does with the outcome of one classify_note / extract_par call
Handle(op, ans, outcome, n_att, wts, io1, io2, g_ok, l_ok) ==
  LET dec == IF outcome.raised = "none" THEN Decision("returned", llm_client)
             ELSE on_exception(outcome.raised, llm_client, env.groq, g_ok, l_ok)
  IN
  /\ last_call' = [client |-> llm_client, op |-> op, file |-> idx,
                   content |-> call_content(op, FileWords(Listing[idx])), answer |-> ans,
                   outcome |-> outcome, attempts |-> n_att, tries |-> wts,
                   groq_ok |-> g_ok, local_ok |-> l_ok, handled |-> dec.do]
  /\ calls' = TRUE
  /\ attempt' = 0
  /\ tries' = <<>>
  /\ switches' = IF dec.do = "switch"
                  THEN Append(switches, [file |-> idx, from |-> llm_client,
                                         to |-> dec.client, signal |-> outcome.raised])
                  ELSE switches
  /\ CASE dec.do = "returned" /\ op = "classify" -> AfterClassify(outcome.value, io1)
       [] dec.do = "returned" /\ op = "extract" -> AfterExtract(outcome.value, io1, io2)
       [] dec.do = "switch" ->
            /\ llm_client' = dec.client
            /\ UNCHANGED <<pc, idx, classification, state, disk, kb, par,
                           count_processed, writes, exit_status, faults>>
       [] dec.do = "exit" ->
            /\ pc' = "exited"
            /\ exit_status' = 1
            /\ UNCHANGED <<idx, classification, state, disk, kb, par,
                           count_processed, writes, llm_client, faults>>
       [] OTHER ->
            /\ FileError
            /\ UNCHANGED <<state, disk, kb, par, count_processed, writes,
                           llm_client, exit_status, faults>>
  /\ UNCHANGED <<run, env, done_at_start, text, out, data, result, sm, fs, lk, killed>>

\* main lines 87-111: load the state (the exception of StateManager() ends the
\* process), pick the provider, list the input
StartRun ==
  /\ pc = "start"
  /\ IF load_raises(disk)
     THEN /\ pc' = "crashed"
          /\ exit_status' = 1
          /\ UNCHANGED <<state, llm_client, idx>>
     ELSE /\ state' = load_state(disk)
          /\ llm_client' = get_llm_client(env)
          /\ idx' = 1
          /\ pc' = "loop"
          /\ UNCHANGED exit_status
  /\ done_at_start' = CompletedNames(load_state(disk))
  /\ count_processed' = 0
  /\ calls' = FALSE
  /\ writes' = FALSE
  /\ switches' = <<>>
  /\ UNCHANGED <<run, env, disk, kb, par, classification, attempt, tries,
                 last_call, faults, text, out, data, result, sm, fs, lk, killed>>

\* main lines 116-119: the file is already processed
SkipFile ==
  /\ pc = "loop"
  /\ idx <= NumFiles
  /\ is_processed(state, FileName(Listing[idx]))
  /\ idx' = idx + 1
  /\ last_call' = NoCall
  /\ UNCHANGED <<run, env, pc, llm_client, state, disk, kb, par, classification,
                 count_processed, attempt, tries, switches, exit_status, calls,
                 writes, done_at_start, faults, text, out, data, result, sm, fs, lk, killed>>

\* main lines 121-135: read the file (read_file may raise)
BeginFile ==
  /\ pc = "loop"
  /\ idx <= NumFiles
  /\ ~is_processed(state, FileName(Listing[idx]))
  /\ \E read_ok \in IoChoices :
       IF read_ok
       THEN pc' = "classify" /\ UNCHANGED <<idx, classification, faults>>
       ELSE FileError /\ faults' = faults + 1
  /\ last_call' = NoCall
  /\ UNCHANGED <<run, env, llm_client, state, disk, kb, par, count_processed,
                 attempt, tries, switches, exit_status, calls, writes,
                 done_at_start, text, out, data, result, sm, fs, lk, killed>>

InCall == pc \in {"classify", "extract"}

\* a call on AntigravityLLM answered by the endpoint
AntigravityStep ==
  /\ InCall
  /\ llm_client = "AntigravityLLM"
  /\ \E ans \in AntigravityAnswers, io1, io2 \in IoChoices :
       \E outcome \in {AntigravityCall(pc, ans)} :
         Handle(pc, ans, outcome, 1, <<>>, io1, io2, TRUE, TRUE)

\* a call on a provider of the chain that raises one of the provider signals
ProviderRaises ==
  /\ InCall
  /\ llm_client \in ChainProviders
  /\ \E sig \in ProviderSignals, g_ok, l_ok \in BOOLEAN :
       Handle(pc, EndpointAnswer(-1, "unknown", <<>>), Raise(sig), 1, <<>>,
              TRUE, TRUE, g_ok, l_ok)

\* a call on GroqLLM / LocalLLM that returns
FallbackReturns ==
  /\ InCall
  /\ llm_client \in {"GroqLLM", "LocalLLM"}
  /\ \E t \in PipelineTexts, io1, io2 \in IoChoices :
       \E outcome \in {ProductionParse(pc, t)} :
         Handle(pc, EndpointAnswer(200, "completion", <<t>>), outcome,
                1, <<>>, io1, io2, TRUE, TRUE)

\* a call on MockLLM
MockStep ==
  /\ InCall
  /\ llm_client = "MockLLM"
  /\ \E io1, io2 \in IoChoices :
       \E outcome \in {IF pc = "classify"
                       THEN MockClassify(call_content(pc, FileWords(Listing[idx])),
                                         PathWords(Listing[idx]))
                       ELSE MockExtractPar(call_content(pc, FileWords(Listing[idx])),
                                           PathWords(Listing[idx]))} :
         Handle(pc, EndpointAnswer(-1, "mock", <<>>), outcome,
                1, <<>>, io1, io2, TRUE, TRUE)

\* one iteration of the retry loop of ProductionLLM._call_llm; when the loop
\* ends, classify_note / extract_par parses the text and main goes on
ProductionAttempt ==
  /\ InCall
  /\ llm_client = "ProductionLLM"
  /\ attempt < max_retries
  /\ \E ans \in CompletionAnswers, io1, io2 \in IoChoices :
       LET r   == llm_attempt(attempt, ans)
           wts == IF r.wait > 0 THEN Append(tries, [answer |-> ans, wait |-> r.wait])
                  ELSE tries
       IN  IF r.done
           THEN \E outcome \in {ProductionParse(pc, r.text)} :
                  Handle(pc, ans, outcome, attempt + 1, wts, io1, io2, TRUE, TRUE)
           ELSE /\ attempt' = attempt + 1
                /\ tries' = wts
                /\ UNCHANGED <<run, env, pc, idx, llm_client, state, disk, kb, par,
                               classification, count_processed, last_call, switches,
                               exit_status, calls, writes, done_at_start, faults, text, out, data, result, sm, fs, lk, killed>>

\* main line 284: the listing is exhausted, the process ends with status 0
FinishRun ==
  /\ pc = "loop"
  /\ idx > NumFiles
  /\ pc' = "finished"
  /\ exit_status' = 0
  /\ last_call' = NoCall
  /\ UNCHANGED <<run, env, idx, llm_client, state, disk, kb, par, classification,
                 count_processed, attempt, tries, switches, calls, writes,
                 done_at_start, faults, text, out, data, result, sm, fs, lk, killed>>

\* the pipeline is started again over the same directories
NextRun ==
  /\ pc \in {"finished", "exited", "crashed", "killed"}
  /\ run < MaxRuns
  /\ run' = run + 1
  /\ pc' = "start"
  /\ exit_status' = -1
  /\ idx' = 0
  /\ llm_client' = ""
  /\ state' = EmptyMap
  /\ classification' = EmptyMap
  /\ last_call' = NoCall
  /\ switches' = <<>>
  /\ UNCHANGED <<env, disk, kb, par, count_processed, attempt, tries, calls,
                 writes, done_at_start, faults, text, out, data, result, sm, fs, lk, killed>>

Next ==
  \/ StartRun
  \/ SkipFile
  \/ BeginFile
  \/ AntigravityStep
  \/ ProviderRaises
  \/ FallbackReturns
  \/ MockStep
  \/ ProductionAttempt
  \/ FinishRun
  \/ NextRun

Spec == Init /\ [][Next]_vars

\* ------------------------------------------------ the providers on any text
TextAlphabet == {LBRACE, RBRACE, LBRACK, RBRACK, FENCE, WS, "json", SCALAR, "mP"}

RECURSIVE TextsUpTo(_)
TextsUpTo(n) ==
  IF n = 0 THEN {<<>>}
  ELSE LET shorter == TextsUpTo(n - 1)
       IN  shorter \cup {Append(s, c) : s \in {x \in shorter : Len(x) = n - 1}, c \in TextAlphabet}

\* longer texts: fenced blocks with a language tag or another word before
\* the JSON, after a block that is no JSON, around a scalar
LongTexts ==
  { <<FENCE, "json", WS, LBRACE, "mP", RBRACE, FENCE>>,
    <<FENCE, "x", WS, LBRACK, RBRACK, FENCE>>,
    <<FENCE, "json", LBRACE, RBRACE, FENCE>>,
    <<FENCE, "x", FENCE, WS, FENCE, "json", WS, LBRACE, RBRACE, FENCE>>,
    <<FENCE, LBRACE, FENCE, FENCE, LBRACK, RBRACK, FENCE, LBRACE, RBRACE>>,
    <<FENCE, SCALAR, FENCE, WS, LBRACE, "mP", RBRACE, WS, "x">>,
    <<WS, FENCE, "json", WS, SCALAR, FENCE, WS>> }

InitText ==
  /\ PipelineIdle
  /\ data = NoData /\ result = NoResult
  /\ lk = [pc |-> "idle"] /\ killed = 0
  /\ sm = [pc |-> "idle"]
  /\ fs = [pc |-> "idle"]
  /\ env = [auth |-> TRUE, openrouter |-> FALSE, groq |-> FALSE, nested |-> FALSE]
  /\ pc = "off"
  /\ text \in TextsUpTo(MaxLen) \cup LongTexts
  /\ out = NoOut

\* classify_note / extract_par of both providers applied to the text
ParseText(op) ==
  /\ pc = "off"
  /\ out = NoOut
  /\ out' = [op |-> op, antigravity |-> AntigravityParse(op, text),
             production |-> ProductionParse(op, text)]
  /\ UNCHANGED <<run, env, pc, idx, llm_client, state, disk, kb, par, classification,
                 count_processed, attempt, tries, switches, last_call, exit_status, calls,
                 writes, done_at_start, faults, text, data, result, sm, fs, lk, killed>>

NextText == ParseText("classify") \/ ParseText("extract")

SpecText == InitText /\ [][NextText]_vars

\* ------------------------------- the pipeline on MockLLM over a found state
\* a classification as the state document records it
RecordedClassification == ClassificationFallback

\* the records a state document may hold for a file name: none (""), or one
\* of the statuses mark_processed documents
RecordStatuses == {"", "completed", "failed", "classified"}

\* the state documents a run may find
ResumeDocuments ==
  {NoDocument}
    \cup {[exists |-> TRUE, mtime |-> 1, doc |-> EmptyMap, form |-> f] :
            f \in {"truncated", "undecodable"}}
    \cup {[exists |-> TRUE, mtime |-> 1, form |-> "json",
           doc |-> [n \in {x \in DOMAIN st : st[x] # ""} |->
                      Record(st[n], RecordedClassification, 0)]] :
            st \in [{FileName(Listing[i]) : i \in 1..NumFiles} -> RecordStatuses]}

InitResume ==
  /\ run = 1 /\ idx = 0 /\ llm_client = "" /\ state = EmptyMap
  /\ kb = EmptyMap /\ par = EmptyMap /\ classification = EmptyMap
  /\ count_processed = 0 /\ attempt = 0 /\ tries = <<>> /\ switches = <<>>
  /\ last_call = NoCall /\ exit_status = -1 /\ calls = FALSE /\ writes = FALSE
  /\ done_at_start = {} /\ faults = 0
  /\ data = NoData /\ result = NoResult
  /\ lk = [pc |-> "idle"] /\ killed = 0
  /\ sm = [pc |-> "idle"]
  /\ fs = [pc |-> "idle"]
  /\ env = [auth |-> FALSE, openrouter |-> FALSE, groq |-> FALSE, nested |-> FALSE]
  /\ pc = "start"
  /\ text = <<>>
  /\ out = NoOut
  /\ disk \in ResumeDocuments

NextMock ==
  \/ StartRun
  \/ SkipFile
  \/ BeginFile
  \/ MockStep
  \/ FinishRun
  \/ NextRun

SpecResume == InitResume /\ [][NextMock]_vars

\* ------------------------------------------------ the pipeline, one run
\* one run of the pipeline, the first or the one after a run that completed
\* the first file, by a process that keeps running: main is one thread, and
\* every step it can take it eventually takes (WF_vars(NextOnce))
InitOnce ==
  /\ run = 1 /\ idx = 0 /\ llm_client = "" /\ state = EmptyMap
  /\ kb = EmptyMap /\ par = EmptyMap /\ classification = EmptyMap
  /\ count_processed = 0 /\ attempt = 0 /\ tries = <<>> /\ switches = <<>>
  /\ last_call = NoCall /\ exit_status = -1 /\ calls = FALSE /\ writes = FALSE
  /\ done_at_start = {} /\ faults = 0
  /\ data = NoData /\ result = NoResult
  /\ lk = [pc |-> "idle"] /\ killed = 0
  /\ sm = [pc |-> "idle"]
  /\ fs = [pc |-> "idle"]
  /\ env \in Envs
  /\ pc = "start"
  /\ text = <<>>
  /\ out = NoOut
  /\ disk \in {NoDocument,
               save_state(mark_processed(EmptyMap, NoDocument, FileName(Listing[1]),
                                         "completed", RecordedClassification),
                          NoDocument)}

NextOnce ==
  \/ StartRun
  \/ SkipFile
  \/ BeginFile
  \/ AntigravityStep
  \/ ProviderRaises
  \/ FallbackReturns
  \/ MockStep
  \/ ProductionAttempt
  \/ FinishRun

\* the run is over: main returned or the process exited
RunOver == pc \in {"finished", "exited", "crashed"}

\* weak fairness of the steps of the run, written out: a run that is not over
\* always has a step to take, so either the run is over again and again or a
\* step is taken again and again
SpecOnce ==
  InitOnce /\ [][NextOnce]_vars /\ ([]<>RunOver \/ []<><<NextOnce>>_vars)

\* ------------------ the pipeline on MockLLM over a nested input directory
\* the input directory holds a file and, in a subdirectory, a file of the same
\* base name
InitNames ==
  /\ run = 1 /\ idx = 0 /\ llm_client = "" /\ state = EmptyMap
  /\ kb = EmptyMap /\ par = EmptyMap /\ classification = EmptyMap
  /\ count_processed = 0 /\ attempt = 0 /\ tries = <<>> /\ switches = <<>>
  /\ last_call = NoCall /\ exit_status = -1 /\ calls = FALSE /\ writes = FALSE
  /\ done_at_start = {} /\ faults = 0
  /\ data = NoData /\ result = NoResult
  /\ lk = [pc |-> "idle"] /\ killed = 0
  /\ sm = [pc |-> "idle"]
  /\ fs = [pc |-> "idle"]
  /\ env = [auth |-> FALSE, openrouter |-> FALSE, groq |-> FALSE, nested |-> TRUE]
  /\ pc = "start"
  /\ text = <<>>
  /\ out = NoOut
  /\ disk \in ResumeDocuments

SpecNames == InitNames /\ [][NextMock]_vars

\* ------------------------------------------- the pipeline run, interrupted
\* the process is killed somewhere in main: nothing more is written.  During
\* extraction the kill may fall inside mark_processed after os.replace, the
\* state document then being the new one although the call never returned.
Interrupt ==
  /\ pc \in {"loop", "classify", "extract"}
  /\ pc' = "killed"
  /\ exit_status' = 137
  /\ killed' = idx
  /\ \/ UNCHANGED disk
     \/ /\ pc = "extract"
        /\ disk' = save_state(mark_processed(state, disk, FileName(idx), "completed",
                                             classification), disk)
  /\ UNCHANGED <<run, env, idx, llm_client, state, kb, par, classification,
                 count_processed, attempt, tries, switches, last_call, calls, writes,
                 done_at_start, faults, text, out, data, result, sm, fs, lk>>

NextCrash ==
  \/ NextMock
  \/ Interrupt

SpecCrash == InitResume /\ [][NextCrash]_vars

\* ------------------------------------------------------- files, step by step
\* a file: whether it exists and the chunks written to it so far
NoFile == [exists |-> FALSE, data |-> <<>>]
File(d) == [exists |-> TRUE, data |-> d]

\* open(path, 'w'): the file is created, or truncated when it exists
open_w(f) == File(<<>>)
\* one more chunk reaches the file
write_chunk(f, c) == File(Append(f.data, c))

\* the variables of main but state
pipeline_rest ==
  <<run, env, pc, idx, llm_client, disk, kb, par, classification, count_processed,
    attempt, tries, switches, last_call, exit_status, calls, writes, done_at_start,
    faults, text, out, killed>>

\* ------------------------------------ StateManager.mark_processed, by steps
\* number of mark_processed calls in a row
MaxMarks == 2

\* json.dump(self.state, f): an opening chunk, one chunk per record, a closing
\* chunk
Chunk(k, n, rec) == [k |-> k, name |-> n, rec |-> rec]
Bracket(k) == Chunk(k, 0, Record("", EmptyMap, 0))
RecordChunks(st, names) == [i \in 1..Len(names) |-> Chunk("rec", names[i], st[names[i]])]
Serialize(st) ==
  <<Bracket("open")>> \o RecordChunks(st, SortedSeq(DOMAIN st))
    \o <<Bracket("close")>>

\* a save that opens the state document itself for writing
save_target_path == "path"

\* save_state line 24: the file json.dump writes to, state_file.with_suffix('.tmp')
save_target == "tmp"

InitStore ==
  /\ run = 1 /\ idx = 0 /\ llm_client = "" /\ disk = NoDocument
  /\ kb = EmptyMap /\ par = EmptyMap /\ classification = EmptyMap
  /\ count_processed = 0 /\ attempt = 0 /\ tries = <<>> /\ switches = <<>>
  /\ last_call = NoCall /\ exit_status = -1 /\ calls = FALSE /\ writes = FALSE
  /\ done_at_start = {} /\ faults = 0
  /\ data = NoData /\ result = NoResult
  /\ lk = [pc |-> "idle"] /\ killed = 0
  /\ fs = [pc |-> "idle"]
  /\ env = [auth |-> FALSE, openrouter |-> FALSE, groq |-> FALSE, nested |-> FALSE]
  /\ pc = "off"
  /\ text = <<>>
  /\ out = NoOut
  /\ \E doc \in {d \in ResumeDocuments : d.form \in {"none", "json"}},
        leftover \in {NoFile, File(<<Bracket("open")>>)} :
       /\ state = load_state(doc)
       /\ sm = [pc |-> "idle", name |-> 0, status |-> "",
                path |-> IF doc.exists THEN File(Serialize(doc.doc)) ELSE NoFile,
                tmp |-> leftover,
                prev |-> IF doc.exists THEN File(Serialize(doc.doc)) ELSE NoFile,
                pos |-> 0, mtime |-> IF doc.exists THEN 1 ELSE 0]

\* mark_processed lines 35-39: the record is assigned in memory
MarkAssign ==
  /\ sm.pc \in {"idle", "returned"}
  /\ sm.mtime <= MaxMarks
  /\ \E n \in {FileName(Listing[i]) : i \in 1..NumFiles},
        status \in RecordStatuses \ {""} :
       /\ state' = mark_processed(state, [exists |-> sm.path.exists, mtime |-> sm.mtime], n, status, RecordedClassification)
       /\ sm' = [sm EXCEPT !.pc = "assigned", !.name = n, !.status = status,
                            !.prev = sm.path]
  /\ UNCHANGED <<pipeline_rest, data, result, fs, lk>>

\* save_state line 25: open(temp_file, 'w')
SaveOpen ==
  /\ sm.pc = "assigned"
  /\ sm' = IF save_target = "tmp"
           THEN [sm EXCEPT !.pc = "open", !.pos = 0, !.tmp = open_w(sm.tmp)]
           ELSE [sm EXCEPT !.pc = "open", !.pos = 0, !.path = open_w(sm.path)]
  /\ UNCHANGED <<state, pipeline_rest, data, result, fs, lk>>

\* save_state line 26: json.dump writes the next chunk
SaveDump ==
  /\ sm.pc = "open"
  /\ sm.pos < Len(Serialize(state))
  /\ sm' = IF save_target = "tmp"
           THEN [sm EXCEPT !.pos = sm.pos + 1,
                           !.tmp = write_chunk(sm.tmp, Serialize(state)[sm.pos + 1])]
           ELSE [sm EXCEPT !.pos = sm.pos + 1,
                           !.path = write_chunk(sm.path, Serialize(state)[sm.pos + 1])]
  /\ UNCHANGED <<state, pipeline_rest, data, result, fs, lk>>

\* the with block ends: the file is closed
SaveClose ==
  /\ sm.pc = "open"
  /\ sm.pos = Len(Serialize(state))
  /\ sm' = [sm EXCEPT !.pc = "closed"]
  /\ UNCHANGED <<state, pipeline_rest, data, result, fs, lk>>

\* save_state line 27: os.replace(temp_file, self.state_file), then
\* mark_processed returns
SaveReplace ==
  /\ sm.pc = "closed"
  /\ sm' = IF save_target = "tmp"
           THEN [sm EXCEPT !.pc = "returned", !.path = sm.tmp, !.tmp = NoFile,
                           !.mtime = sm.mtime + 1]
           ELSE [sm EXCEPT !.pc = "returned", !.mtime = sm.mtime + 1]
  /\ UNCHANGED <<state, pipeline_rest, data, result, fs, lk>>

\* the process is interrupted inside the call
MarkInterrupted ==
  /\ sm.pc \in {"assigned", "open", "closed"}
  /\ sm' = [sm EXCEPT !.pc = "interrupted"]
  /\ UNCHANGED <<state, pipeline_rest, data, result, fs, lk>>

NextStore ==
  \/ MarkAssign
  \/ SaveOpen
  \/ SaveDump
  \/ SaveClose
  \/ SaveReplace
  \/ MarkInterrupted

SpecStore == InitStore /\ [][NextStore]_vars

\* ------------------------------------------------ safe_write_file, by steps
\* longest content written, in chunks
MaxChunks == 3

RECURSIVE ContentsUpTo(_)
ContentsUpTo(n) ==
  IF n = 0 THEN {<<>>}
  ELSE LET shorter == ContentsUpTo(n - 1)
       IN  shorter \cup {Append(c, x) : c \in {y \in shorter : Len(y) = n - 1},
                                        x \in {"a", "b"}}

\* a write that opens the destination itself
write_target_path == "path"

\* safe_write_file line 29: the file tf.write writes to, a NamedTemporaryFile
\* in the directory of the destination
write_target == "tmp"

InitWrite ==
  /\ PipelineIdle
  /\ data = NoData /\ result = NoResult
  /\ lk = [pc |-> "idle"] /\ killed = 0
  /\ sm = [pc |-> "idle"]
  /\ env = [auth |-> FALSE, openrouter |-> FALSE, groq |-> FALSE, nested |-> FALSE]
  /\ pc = "off"
  /\ text = <<>>
  /\ out = NoOut
  /\ \E old \in {NoFile, File(<<"o">>), File(<<"o", "p">>)}, content \in ContentsUpTo(MaxChunks) :
       fs = [pc |-> "called", path |-> old, tmp |-> NoFile, prev |-> old,
             content |-> content, pos |-> 0]

\* safe_write_file lines 26-29: the directory is made, the file is created
WriteCreate ==
  /\ fs.pc = "called"
  /\ fs' = IF write_target = "tmp"
           THEN [fs EXCEPT !.pc = "open", !.tmp = open_w(fs.tmp)]
           ELSE [fs EXCEPT !.pc = "open", !.path = open_w(fs.path)]
  /\ UNCHANGED <<state, pipeline_rest, data, result, sm, lk>>

\* safe_write_file line 30: the next chunk of tf.write(content) reaches the file
WriteChunk ==
  /\ fs.pc = "open"
  /\ fs.pos < Len(fs.content)
  /\ fs' = IF write_target = "tmp"
           THEN [fs EXCEPT !.pos = fs.pos + 1,
                           !.tmp = write_chunk(fs.tmp, fs.content[fs.pos + 1])]
           ELSE [fs EXCEPT !.pos = fs.pos + 1,
                           !.path = write_chunk(fs.path, fs.content[fs.pos + 1])]
  /\ UNCHANGED <<state, pipeline_rest, data, result, sm, lk>>

\* safe_write_file line 31: the with block ends
WriteClose ==
  /\ fs.pc = "open"
  /\ fs.pos = Len(fs.content)
  /\ fs' = [fs EXCEPT !.pc = "closed"]
  /\ UNCHANGED <<state, pipeline_rest, data, result, sm, lk>>

\* safe_write_file line 33: os.replace(temp_name, path)
WriteReplace ==
  /\ fs.pc = "closed"
  /\ fs' = IF write_target = "tmp"
           THEN [fs EXCEPT !.pc = "returned", !.path = fs.tmp, !.tmp = NoFile]
           ELSE [fs EXCEPT !.pc = "returned"]
  /\ UNCHANGED <<state, pipeline_rest, data, result, sm, lk>>

\* the write is interrupted
WriteInterrupted ==
  /\ fs.pc \in {"called", "open", "closed"}
  /\ fs' = [fs EXCEPT !.pc = "interrupted"]
  /\ UNCHANGED <<state, pipeline_rest, data, result, sm, lk>>

NextWrite ==
  \/ WriteCreate
  \/ WriteChunk
  \/ WriteClose
  \/ WriteReplace
  \/ WriteInterrupted

SpecWrite == InitWrite /\ [][NextWrite]_vars

\* ------------------------------------------- a note read, framed and written
\* longest note enumerated, in units
MaxNote == 3

\* the bytes of a note, in units
RECURSIVE NotesUpTo(_)
NotesUpTo(n) ==
  IF n = 0 THEN {<<>>}
  ELSE LET shorter == NotesUpTo(n - 1)
       IN  shorter \cup {Append(c, x) : c \in {y \in shorter : Len(y) = n - 1},
                                        x \in {"x", "run", "CR", "LF", "---", "ERROR", "Failure",
                                              "api", "think"}}

InitNote ==
  /\ PipelineIdle
  /\ data = NoData /\ result = NoResult
  /\ lk = [pc |-> "idle"] /\ killed = 0
  /\ sm = [pc |-> "idle"]
  /\ env = [auth |-> FALSE, openrouter |-> FALSE, groq |-> FALSE, nested |-> FALSE]
  /\ pc = "off"
  /\ text = <<>>
  /\ out = NoOut
  /\ \E bytes \in NotesUpTo(MaxNote), linesep \in {<<"LF">>, <<"CR", "LF">>},
        rel_path \in {<<>>, <<"Debug">>, <<"reference">>} :
       fs = [pc |-> "note", note |-> bytes, linesep |-> linesep, rel_path |-> rel_path,
             original_content |-> <<>>, context_snippet |-> <<>>,
             classification_raw |-> EmptyDict, classification |-> EmptyMap,
             final_content |-> <<>>, dest |-> NoFile]

\* main lines 125-128: original_content = read_file(file_path), and its head
NoteRead ==
  /\ fs.pc = "note"
  /\ fs' = [fs EXCEPT !.pc = "read",
                      !.original_content = call_content("extract", fs.note),
                      !.context_snippet = call_content("classify", fs.note)]
  /\ UNCHANGED <<state, pipeline_rest, data, result, sm, lk>>

\* main lines 142 and 196: MockLLM.classify_note, validate_classification
NoteClassify ==
  /\ fs.pc = "read"
  /\ fs' = [fs EXCEPT
             !.pc = "classified",
             !.classification_raw = MockClassify(fs.context_snippet, fs.rel_path).value,
             !.classification =
                validate_classification(MockClassify(fs.context_snippet, fs.rel_path).value)]
  /\ UNCHANGED <<state, pipeline_rest, data, result, sm, lk>>

\* main lines 201-207: prepend the frontmatter, write to kb/<type>/<file name>
NoteWrite ==
  /\ fs.pc = "classified"
  /\ fs' = [fs EXCEPT
             !.pc = "written",
             !.final_content =
                prepend_frontmatter(fs.original_content, fs.classification["type"].s),
             !.dest =
                File(write_text(prepend_frontmatter(fs.original_content,
                                                    fs.classification["type"].s),
                                fs.linesep))]
  /\ UNCHANGED <<state, pipeline_rest, data, result, sm, lk>>

NextNote ==
  \/ NoteRead
  \/ NoteClassify
  \/ NoteWrite

SpecNote == InitNote /\ [][NextNote]_vars

\* ----------------------------------------------- acquire_lock, two processes
\* the processes started against the lock file; process p has process id p
Procs == {1, 2}

\* the lock file: absent, text that is no process id, or a process id
LockFile(kind, pid) == [kind |-> kind, pid |-> pid]

\* what a lock file may hold when the first process starts: nothing (no file),
\* text that is no process id, the id (0) of a process that no longer runs
FoundLocks == {LockFile("none", 0), LockFile("garbage", 0), LockFile("pid", 0)}

\* psutil: the process with this id is running
IsRunning(q) == q \in Procs /\ lk.proc[q].pc \notin {"refused", "crashed", "exited", "done"}

\* a check that lets only a lock naming a dead process be taken over
lock_check_strict(content, running) ==
  IF content.kind = "none" THEN "crash"
  ELSE IF content.kind = "garbage" \/ running THEN "exit"
  ELSE "acquire"

\* a check that takes the lock whatever it names
lock_check_always(content, running) ==
  IF content.kind = "none" THEN "crash" ELSE "acquire"

\* acquire_lock lines 57-65, for the content read_text finds: no file any more
\* (FileNotFoundError, not caught), text that int() rejects (ValueError), or a
\* process id, running or not (NoSuchProcess, or is_running() false)
lock_check(content, running) ==
  IF content.kind = "none" THEN "crash"
  ELSE IF content.kind = "garbage" THEN "acquire"
  ELSE IF running THEN "exit"
  ELSE "acquire"

\* a process whose end leaves the lock file in place
Ended_keep(p, how, code) ==
  lk' = [lk EXCEPT !.proc[p].pc = how, !.proc[p].status = code]

\* the process ends: the registered cleanup_lock unlinks the lock file
Ended(p, how, code) ==
  lk' = [lk EXCEPT !.proc[p].pc = how, !.proc[p].status = code,
                   !.file = IF lk.proc[p].registered THEN LockFile("none", 0) ELSE @]

InitLock ==
  /\ PipelineIdle
  /\ data = NoData /\ result = NoResult
  /\ sm = [pc |-> "idle"]
  /\ fs = [pc |-> "idle"]
  /\ killed = 0
  /\ env = [auth |-> FALSE, openrouter |-> FALSE, groq |-> FALSE, nested |-> FALSE]
  /\ pc = "off"
  /\ text = <<>>
  /\ out = NoOut
  /\ \E found \in FoundLocks :
       lk = [pc |-> "run", file |-> found, found |-> found,
             proc |-> [p \in Procs |->
                         [pc |-> "start", registered |-> FALSE, loaded |-> FALSE,
                          left |-> 0, status |-> -1]]]

\* acquire_lock line 56: LOCK_FILE.exists()
LockExists(p) ==
  /\ lk.pc = "run"
  /\ lk.proc[p].pc = "start"
  /\ lk' = [lk EXCEPT !.proc[p].pc = IF lk.file.kind = "none" THEN "write" ELSE "read"]
  /\ UNCHANGED <<state, pipeline_rest, data, result, sm, fs>>

\* acquire_lock lines 57-65: read the lock, look the process up
LockRead(p) ==
  /\ lk.pc = "run"
  /\ lk.proc[p].pc = "read"
  /\ LET check == lock_check(lk.file, IsRunning(lk.file.pid))
     IN  CASE check = "acquire" -> lk' = [lk EXCEPT !.proc[p].pc = "write"]
           [] check = "exit" -> Ended(p, "refused", 1)
           [] OTHER -> Ended(p, "crashed", 1)
  /\ UNCHANGED <<state, pipeline_rest, data, result, sm, fs>>

\* acquire_lock lines 67-68: write the own process id, register cleanup_lock
LockWrite(p) ==
  /\ lk.pc = "run"
  /\ lk.proc[p].pc = "write"
  /\ lk' = [lk EXCEPT !.file = LockFile("pid", p), !.proc[p].pc = "main", !.proc[p].registered = TRUE]
  /\ UNCHANGED <<state, pipeline_rest, data, result, sm, fs>>

\* main lines 91-111: without an input directory main returns; StateManager()
\* may raise (load_raises); else the listing is made, of any length
MainLoad(p) ==
  /\ lk.pc = "run"
  /\ lk.proc[p].pc = "main"
  /\ \/ Ended(p, "done", 0)
     \/ Ended(p, "crashed", 1)
     \/ \E n \in 0..NumFiles :
          lk' = [lk EXCEPT !.proc[p].pc = "loop", !.proc[p].loaded = TRUE,
                           !.proc[p].left = n]
  /\ UNCHANGED <<state, pipeline_rest, data, result, sm, fs>>

\* main lines 113-282: one file of the listing is skipped, completed or fails,
\* or the fallback chain is exhausted and the process exits with status 1
MainFile(p) ==
  /\ lk.pc = "run"
  /\ lk.proc[p].pc = "loop"
  /\ lk.proc[p].left > 0
  /\ \/ lk' = [lk EXCEPT !.proc[p].left = @ - 1]
     \/ Ended(p, "exited", 1)
  /\ UNCHANGED <<state, pipeline_rest, data, result, sm, fs>>

\* main line 284: the loop is over, main returns
MainEnd(p) ==
  /\ lk.pc = "run"
  /\ lk.proc[p].pc = "loop"
  /\ lk.proc[p].left = 0
  /\ Ended(p, "done", 0)
  /\ UNCHANGED <<state, pipeline_rest, data, result, sm, fs>>

NextLock ==
  \E p \in Procs :
    \/ LockExists(p)
    \/ LockRead(p)
    \/ LockWrite(p)
    \/ MainLoad(p)
    \/ MainFile(p)
    \/ MainEnd(p)

SpecLock == InitLock /\ [][NextLock]_vars

\* ------------------------------------- validate_classification on any input
\* longest list of tags enumerated
MaxTags == 6

Absent == [t |-> "absent", s |-> "", n |-> 0, l |-> <<>>]

RECURSIVE TagListsUpTo(_)
TagListsUpTo(n) ==
  IF n = 0 THEN {<<>>}
  ELSE LET shorter == TagListsUpTo(n - 1)
       IN  shorter \cup {Append(l, e) : l \in {x \in shorter : Len(x) = n - 1}, e \in {Str("a"), Num(95)}}

\* the inputs of validate_classification: a value that is not a dict, and the
\* dicts over the values below, a key with value Absent being left out
ValidatorInputs ==
  {NoData} \cup
  {[is_dict |-> TRUE,
    map |-> [k \in {x \in DOMAIN all : all[x].t # "absent"} |-> all[k]]] :
     all \in [type : {Absent, None, Num(95), Str("nonsense"),
                      Str("reference"), Str("problems"), Str("inbox")},
              context : {Absent, None, Str("nowhere"), Str("work")},
              tags : {Absent, None, Str("t")} \cup {List(l) : l \in TagListsUpTo(MaxTags)},
              confidence : {Absent, None, Str("high"), Str("0.9"), List(<<>>),
                            Bool(TRUE), Huge, Num(-50), Num(0), Num(59), Num(60),
                            Num(95), Num(100), Num(150)}]}

InitValidate ==
  /\ PipelineIdle
  /\ sm = [pc |-> "idle"]
  /\ fs = [pc |-> "idle"]
  /\ env = [auth |-> FALSE, openrouter |-> FALSE, groq |-> FALSE, nested |-> FALSE]
  /\ pc = "off"
  /\ text = <<>>
  /\ out = NoOut
  /\ data \in ValidatorInputs
  /\ lk = [pc |-> "idle"] /\ killed = 0
  /\ result = NoResult

\* validate_classification(data)
Validate ==
  /\ pc = "off"
  /\ ~result.called
  /\ result' = validate_call(data.is_dict, data.map)
  /\ UNCHANGED <<run, env, pc, idx, llm_client, state, disk, kb, par, classification,
                 count_processed, attempt, tries, switches, last_call, exit_status,
                 calls, writes, done_at_start, faults, text, out, data, sm, fs, lk, killed>>

SpecValidate == InitValidate /\ [][Validate]_vars

\* ------------------------------------------- the directories main reads and writes
\* config.py: the directories under ROOT_DIR and the state document; a path
\* is <<directory, subdirectory, file name>>
INPUT_DIR == "input_notes"
KB_DIR == "kb"
PAR_DIR == "distilled_par"
STATE_FILE == <<"", "", "state.json">>

\* the .md files an input directory may hold, in the order of sorted()
InputPaths(dir) ==
  << <<dir, "", "a.md">>, <<dir, "inbox", "a.md">>, <<dir, "problems", "b.md">> >>

\* file_path.stem + ".json"
par_filename(name) == IF name = "a.md" THEN "a.json" ELSE "b.json"

\* get_markdown_files: the sorted .md files under the directory
get_markdown_files(tree, dir) ==
  LET Pick[k \in 0..Len(InputPaths(dir))] ==
        IF k = 0 THEN <<>>
        ELSE IF InputPaths(dir)[k] \in DOMAIN tree
             THEN Append(Pick[k - 1], InputPaths(dir)[k])
             ELSE Pick[k - 1]
  IN  Pick[Len(InputPaths(dir))]

\* one run of main over a file tree: fs.tree maps the paths that exist to
\* their bytes, fs.input_dir is the --input-dir argument (INPUT_DIR by default),
\* fs.before is the tree when the run started, fs.done the names completed in
\* the in-memory state
InitFrame ==
  /\ PipelineIdle
  /\ data = NoData /\ result = NoResult
  /\ lk = [pc |-> "idle"] /\ killed = 0
  /\ sm = [pc |-> "idle"]
  /\ env = [auth |-> FALSE, openrouter |-> FALSE, groq |-> FALSE, nested |-> FALSE]
  /\ pc = "off"
  /\ text = <<>>
  /\ out = NoOut
  /\ \E dir \in {INPUT_DIR, KB_DIR} :
       \E found \in (SUBSET {InputPaths(dir)[k] : k \in 1..3}) \ {{}} :
         fs = [pc |-> "start", input_dir |-> dir,
               tree |-> [p \in found |-> <<"x", "CR", "LF">>],
               before |-> EmptyMap, files |-> <<>>, i |-> 0, type |-> "",
               done |-> {}]

\* main lines 104-111: the listing of the input directory
FrameStart ==
  /\ fs.pc = "start"
  /\ fs' = [fs EXCEPT !.pc = "loop", !.before = fs.tree, !.i = 1,
                      !.files = get_markdown_files(fs.tree, fs.input_dir)]
  /\ UNCHANGED <<state, pipeline_rest, data, result, sm, lk>>

\* main lines 116-119
FrameSkip ==
  /\ fs.pc = "loop"
  /\ fs.i <= Len(fs.files)
  /\ fs.files[fs.i][3] \in fs.done
  /\ fs' = [fs EXCEPT !.i = fs.i + 1]
  /\ UNCHANGED <<state, pipeline_rest, data, result, sm, lk>>

\* main lines 121-207: read, classify to whatever valid type, write the copy
\* to KB_DIR/<type>/<file name>; or the file fails, or the run exits
FrameClassify ==
  /\ fs.pc = "loop"
  /\ fs.i <= Len(fs.files)
  /\ fs.files[fs.i][3] \notin fs.done
  /\ \/ \E t \in VALID_TYPES :
          fs' = [fs EXCEPT
                   !.pc = "extract", !.type = t,
                   !.tree = Put(fs.tree, <<KB_DIR, t, fs.files[fs.i][3]>>,
                                write_text(prepend_frontmatter(
                                             read_file(fs.tree[fs.files[fs.i]]), t),
                                           <<"LF">>))]
     \/ fs' = [fs EXCEPT !.i = fs.i + 1]
     \/ fs' = [fs EXCEPT !.pc = "exited"]
  /\ UNCHANGED <<state, pipeline_rest, data, result, sm, lk>>

\* main lines 209-282: extract, write the summary to PAR_DIR/<stem>.json, mark
\* the file completed and save the state document; or the file fails before
\* the summary or at the save, or the run exits
FrameExtract ==
  /\ fs.pc = "extract"
  /\ \/ \E saved \in BOOLEAN :
          fs' = [fs EXCEPT
                   !.pc = "loop", !.i = fs.i + 1, !.type = "",
                   !.done = fs.done \cup {fs.files[fs.i][3]},
                   !.tree = LET t1 == Put(fs.tree,
                                          <<PAR_DIR, "", par_filename(fs.files[fs.i][3])>>,
                                          <<"par">>)
                            IN  IF saved THEN Put(t1, STATE_FILE, <<"state">>) ELSE t1]
     \/ fs' = [fs EXCEPT !.pc = "loop", !.i = fs.i + 1, !.type = ""]
     \/ fs' = [fs EXCEPT !.pc = "exited"]
  /\ UNCHANGED <<state, pipeline_rest, data, result, sm, lk>>

\* main line 284
FrameFinish ==
  /\ fs.pc = "loop"
  /\ fs.i > Len(fs.files)
  /\ fs' = [fs EXCEPT !.pc = "finished"]
  /\ UNCHANGED <<state, pipeline_rest, data, result, sm, lk>>

NextFrame ==
  \/ FrameStart
  \/ FrameSkip
  \/ FrameClassify
  \/ FrameExtract
  \/ FrameFinish

SpecFrame == InitFrame /\ [][NextFrame]_vars

\* ------------------------ StateManager on a state document of any JSON shape
\* A value json.load returns: t its Python type, m its items when a dict,
\* s its content when a str, n its content when a number or a bool.
JVal(t, m, s, n) == [t |-> t, m |-> m, s |-> s, n |-> n]
JDict(m) == JVal("dict", m, "", 0)
\* the list with no element
JList    == JVal("list", EmptyMap, "", 0)
JNull    == JVal("none", EmptyMap, "", 0)
JStr(x)  == JVal("str", EmptyMap, x, 0)
JNum(x)  == JVal("num", EmptyMap, "", x)
JBool(b) == JVal("bool", EmptyMap, "", IF b THEN 1 ELSE 0)

\* how an expression ends: with a value, or with an exception
Returned(v) == [raised |-> "", value |-> v]
Raised(exc) == [raised |-> exc, value |-> JNull]

\* v[k], k a str
GetItem(v, k) ==
  IF v.t = "dict"
  THEN IF k \in DOMAIN v.m THEN Returned(v.m[k]) ELSE Raised("KeyError")
  ELSE Raised("TypeError")

\* k in v, k a file name: a key of a dict, an element of a list (here the
\* empty one), a substring of a str (no str of a document holds a file name)
Contains(v, k) ==
  CASE v.t = "dict" -> Returned(JBool(k \in DOMAIN v.m))
    [] v.t \in {"list", "str"} -> Returned(JBool(FALSE))
    [] OTHER -> Raised("TypeError")

\* v.get(k, {})
GetOr(v, k) ==
  IF v.t = "dict"
  THEN Returned(IF k \in DOMAIN v.m THEN v.m[k] ELSE JDict(EmptyMap))
  ELSE Raised("AttributeError")

\* v[k] = x, k a str
SetItem(v, k, x) ==
  IF v.t = "dict" THEN Returned(JDict(Put(v.m, k, x))) ELSE Raised("TypeError")

\* {"processed_files": {}}
FreshState == JDict([processed_files |-> JDict(EmptyMap)])

\* a state document: absent, or a file that is JSON text of value v
\* ("json"), text that json.load rejects ("truncated") or bytes that are no
\* UTF-8 ("undecodable")
StateDoc(form, v) == [exists |-> form # "none", form |-> form, value |-> v]

\* StateManager._load_state
load_state_value(d) ==
  IF ~d.exists THEN Returned(FreshState)
  ELSE CASE d.form = "json" -> Returned(d.value)
         [] d.form = "truncated" -> Returned(FreshState)
         [] OTHER -> Raised("UnicodeDecodeError")

\* StateManager.is_processed on self.state = st
is_processed_in(st, file_name) ==
  LET pf == GetItem(st, "processed_files")
  IN  IF pf.raised # "" THEN pf
      ELSE IF Contains(pf.value, file_name).raised # "" THEN Contains(pf.value, file_name)
      ELSE IF Contains(pf.value, file_name).value.n = 0 THEN Returned(JBool(FALSE))
      ELSE IF GetItem(pf.value, file_name).raised # "" THEN GetItem(pf.value, file_name)
      ELSE IF GetItem(GetItem(pf.value, file_name).value, "status").raised # ""
           THEN GetItem(GetItem(pf.value, file_name).value, "status")
      ELSE Returned(JBool(GetItem(GetItem(pf.value, file_name).value, "status").value
                            = JStr("completed")))

\* StateManager.get_file_state on self.state = st
get_file_state_in(st, file_name) ==
  LET pf == GetItem(st, "processed_files")
  IN  IF pf.raised # "" THEN pf ELSE GetOr(pf.value, file_name)

\* StateManager.mark_processed lines 36-40 on self.state = st: the state
\* after the assignment, or the exception of the assignment
mark_processed_in(st, file_name, status, cls, timestamp) ==
  LET pf == GetItem(st, "processed_files")
  IN  IF pf.raised # "" THEN pf
      ELSE IF SetItem(pf.value, file_name, JNull).raised # ""
           THEN SetItem(pf.value, file_name, JNull)
      ELSE Returned(JDict(Put(st.m, "processed_files",
             SetItem(pf.value, file_name,
                     JDict([status |-> JStr(status), classification |-> cls,
                            timestamp |-> JNum(timestamp)])).value)))

\* the values under "processed_files" a state document may carry for the
\* first listed file
ProcessedFilesValues ==
  {JDict(EmptyMap), JList, JNull, JStr("completed")}
    \cup {JDict([n \in {FileName(Listing[1])} |-> rec]) :
            rec \in {JDict(EmptyMap), JNull, JStr("completed"),
                     JDict([status |-> JNull]),
                     JDict([status |-> JStr("completed")]),
                     JDict([status |-> JStr("failed")])}}

\* the state documents StateManager() may find
ShapeDocuments ==
  {StateDoc("none", JNull), StateDoc("truncated", JNull), StateDoc("undecodable", JNull)}
    \cup {StateDoc("json", v) : v \in {JDict(EmptyMap), JList, JNull, JStr("completed")}}
    \cup {StateDoc("json", JDict([processed_files |-> v])) : v \in ProcessedFilesValues}

\* self.state is a dict whose "processed_files" is a dict of dicts that each
\* carry a "status"
WellShaped(st) ==
  /\ st.t = "dict"
  /\ "processed_files" \in DOMAIN st.m
  /\ st.m["processed_files"].t = "dict"
  /\ \A n \in DOMAIN st.m["processed_files"].m :
       /\ st.m["processed_files"].m[n].t = "dict"
       /\ "status" \in DOMAIN st.m["processed_files"].m[n].m

InitShape ==
  /\ PipelineIdle
  /\ data = NoData /\ result = NoResult
  /\ lk = [pc |-> "idle"] /\ killed = 0
  /\ fs = [pc |-> "idle"]
  /\ env = [auth |-> FALSE, openrouter |-> FALSE, groq |-> FALSE, nested |-> FALSE]
  /\ pc = "off"
  /\ text = <<>>
  /\ out = NoOut
  /\ \E d \in ShapeDocuments :
       sm = [pc |-> "new", doc |-> d, st |-> JNull, op |-> "", out |-> Returned(JNull),
             marks |-> 0]

\* StateManager(): __init__ line 10
ShapeLoad ==
  /\ sm.pc = "new"
  /\ sm' = IF load_state_value(sm.doc).raised = ""
           THEN [sm EXCEPT !.pc = "ready", !.st = load_state_value(sm.doc).value,
                           !.op = "_load_state", !.out = Returned(JNull)]
           ELSE [sm EXCEPT !.pc = "failed", !.op = "_load_state",
                           !.out = load_state_value(sm.doc)]
  /\ UNCHANGED <<state, pipeline_rest, data, result, fs, lk>>

\* a call of is_processed
ShapeIsProcessed ==
  /\ sm.pc = "ready"
  /\ \E n \in {FileName(Listing[i]) : i \in 1..NumFiles} :
       sm' = [sm EXCEPT !.op = "is_processed", !.out = is_processed_in(sm.st, n)]
  /\ UNCHANGED <<state, pipeline_rest, data, result, fs, lk>>

\* a call of get_file_state
ShapeGetFileState ==
  /\ sm.pc = "ready"
  /\ \E n \in {FileName(Listing[i]) : i \in 1..NumFiles} :
       sm' = [sm EXCEPT !.op = "get_file_state", !.out = get_file_state_in(sm.st, n)]
  /\ UNCHANGED <<state, pipeline_rest, data, result, fs, lk>>

\* a call of mark_processed: the assignment, then save_state, which writes
\* self.state as the new document
ShapeMarkProcessed ==
  /\ sm.pc = "ready"
  /\ sm.marks < MaxMarks
  /\ \E n \in {FileName(Listing[i]) : i \in 1..NumFiles},
        status \in RecordStatuses \ {""} :
       sm' = IF mark_processed_in(sm.st, n, status, JNull, sm.marks).raised = ""
             THEN [sm EXCEPT !.op = "mark_processed", !.out = Returned(JNull),
                             !.st = mark_processed_in(sm.st, n, status, JNull, sm.marks).value,
                             !.doc = StateDoc("json",
                                       mark_processed_in(sm.st, n, status, JNull, sm.marks).value),
                             !.marks = sm.marks + 1]
             ELSE [sm EXCEPT !.op = "mark_processed",
                             !.out = mark_processed_in(sm.st, n, status, JNull, sm.marks),
                             !.marks = sm.marks + 1]
  /\ UNCHANGED <<state, pipeline_rest, data, result, fs, lk>>

NextShape ==
  \/ ShapeLoad
  \/ ShapeIsProcessed
  \/ ShapeGetFileState
  \/ ShapeMarkProcessed

SpecShape == InitShape /\ [][NextShape]_vars

\* ================================================================ properties
ListedNames == {FileName(Listing[i]) : i \in 1..NumFiles}

\* position of a provider in the chain Antigravity -> Groq -> Local
Rank(client) ==
  CASE client = "AntigravityLLM" -> 1
    [] client = "GroqLLM" -> 2
    [] client = "LocalLLM" -> 3
    [] OTHER -> 0

RateLimited(ans) ==
  ans.envelope = "RateLimitError" \/ (ans.envelope = "APIError" /\ ans.status = 429)

\* the value classify_note / extract_par return on a parse failure
ParseFallback(op) == IF op = "classify" THEN EmptyDict ELSE EmptyPar

\* ---- C1
\* C1: a run that starts from a persisted state in which every listed file
\* is completed skips every file: it issues no classify_note / extract_par
\* call, writes nothing to the classified store, the summary store or the
\* state document, and never enters the per-file processing.
C1_SecondRunSkipsAll ==
  (pc \notin {"start", "off"} /\ ListedNames \subseteq done_at_start)
    => /\ ~calls
       /\ ~writes
       /\ pc \in {"loop", "finished"}
       /\ count_processed = 0

C1_Witness ==
  /\ run = 2
  /\ pc = "finished"
  /\ ListedNames \subseteq done_at_start
  /\ ListedNames \subseteq CompletedNames(load_state(disk))

\* ---- C2
\* C2: within a run the provider main holds never moves to an earlier
\* position of the chain Antigravity -> Groq -> Local, every call is sent to
\* the provider main holds, and that provider is never earlier than the
\* target of a switch made before in the run.
C2_StickyDemotion ==
  /\ [](\A i \in DOMAIN switches :
          /\ Rank(switches[i].to) > Rank(switches[i].from)
          /\ Rank(llm_client) >= Rank(switches[i].to)
          /\ (last_call.client # "" /\ last_call.handled # "switch")
               => Rank(last_call.client) >= Rank(switches[i].to))
  /\ [][(pc # "start" /\ pc' # "start") => Rank(llm_client') >= Rank(llm_client)]_vars
  /\ [][(last_call' # last_call /\ last_call'.client # "")
          => last_call'.client = llm_client]_vars

\* A and B signalled exhaustion during file 1, C completed it, and the call
\* for file 2 went to C
C2_Witness ==
  /\ Len(switches) = 2
  /\ switches[1] = [file |-> 1, from |-> "AntigravityLLM", to |-> "GroqLLM",
                    signal |-> "BlockingIOError"]
  /\ switches[2] = [file |-> 1, from |-> "GroqLLM", to |-> "LocalLLM",
                    signal |-> "BlockingIOError"]
  /\ is_processed(state, FileName(1))
  /\ last_call.file = 2
  /\ last_call.client = "LocalLLM"
  /\ last_call.handled = "returned"

\* ---- C3
LaterEligible(client, groq_key, g_ok, l_ok) ==
  CASE client = "AntigravityLLM" -> (groq_key /\ g_ok) \/ l_ok
    [] client = "GroqLLM" -> l_ok
    [] OTHER -> FALSE

NextEligible(client, groq_key, g_ok) ==
  IF client = "AntigravityLLM" /\ groq_key /\ g_ok THEN "GroqLLM" ELSE "LocalLLM"

\* C3: whenever a call of a chain provider signals BlockingIOError,
\* RuntimeError or TimeoutError and a later eligible provider exists, main
\* switches to the next eligible provider and stays on the same call of the
\* same file; the run is not aborted.
C3_SwitchOnSignal ==
  (/\ last_call.outcome.raised \in {"BlockingIOError", "RuntimeError", "TimeoutError"}
   /\ LaterEligible(last_call.client, env.groq, last_call.groq_ok, last_call.local_ok))
    => /\ last_call.handled = "switch"
       /\ llm_client = NextEligible(last_call.client, env.groq, last_call.groq_ok)
       /\ pc = last_call.op
       /\ idx = last_call.file
       /\ exit_status = -1

\* ---- C4
LocalFailed ==
  last_call.client = "LocalLLM" /\ last_call.outcome.raised \in ProviderSignals

\* C4: when a call on LocalLLM raises a provider signal, the run is over with
\* exit status 1 and the file in flight is not completed, in memory or on
\* disk; the exiting step changes neither the state document nor the stores,
\* and after an exit nothing happens in the run (the only step is the start
\* of another run, which leaves the state document as it is).
C4_LastProviderExits ==
  /\ [](LocalFailed =>
          /\ last_call.handled = "exit"
          /\ pc = "exited"
          /\ exit_status = 1
          /\ idx = last_call.file
          /\ ~is_processed(state, FileName(idx))
          /\ ~is_processed(load_state(disk), FileName(idx)))
  /\ [][(pc # "exited" /\ pc' = "exited")
          => (disk' = disk /\ state' = state /\ kb' = kb /\ par' = par)]_vars
  /\ [][pc = "exited"
          => (pc' = "start" /\ run' = run + 1 /\ disk' = disk /\ kb' = kb /\ par' = par)]_vars

C4_Witness ==
  /\ LocalFailed
  /\ pc = "exited"
  /\ last_call.file = 2
  /\ is_processed(load_state(disk), FileName(1))
  /\ count_processed = 1

\* ---- C5
\* C5: a PermissionError raised by a provider call ends the run with exit
\* status 1; main does not switch to another provider and does not go on.
C5_PermissionErrorAborts ==
  last_call.outcome.raised = "PermissionError"
    => /\ last_call.handled = "exit"
       /\ pc = "exited"
       /\ exit_status = 1
       /\ llm_client = last_call.client

\* ---- C6
\* C6: when the Antigravity endpoint answers 401, classify_note / extract_par
\* raise PermissionError and main does not take the call as returned.
C6_UnauthorizedRaises ==
  (last_call.client = "AntigravityLLM" /\ last_call.answer.status = 401)
    => /\ last_call.outcome.raised = "PermissionError"
       /\ last_call.handled # "returned"

\* ---- C7
\* C7: when the Antigravity endpoint answers a status other than 200 and 401,
\* classify_note / extract_par raise BlockingIOError, so main demotes the
\* provider (or exits when none is left) and does not take an empty result.
C7_QuotaSignalRaised ==
  (/\ last_call.client = "AntigravityLLM"
   /\ last_call.answer.status \notin {-1, 0, 200, 401})
    => /\ last_call.outcome.raised = "BlockingIOError"
       /\ last_call.handled \in {"switch", "exit"}

\* ---- C8
HardFailure(client, ans) ==
  \/ client = "ProductionLLM" /\ ans.envelope = "APIError" /\ ans.status # 429
  \/ client = "ProductionLLM" /\ ans.envelope = "Exception"
  \/ client = "AntigravityLLM" /\ ans.status = 0

\* C8: a non-rate-limit API error or a transport exception inside _call_llm /
\* _call_api leaves classify_note / extract_par as an exception; it is not
\* turned into a returned value.
C8_HardFailurePropagates ==
  HardFailure(last_call.client, last_call.answer)
    => /\ last_call.outcome.raised # "none"
       /\ last_call.handled # "returned"

\* ---- C9
BackoffOk(ts) ==
  \A i \in DOMAIN ts : RateLimited(ts[i].answer) /\ ts[i].wait = base_delay * Pow2(i - 1)

\* C9: _call_llm goes to another attempt only after a rate-limit answer, waits
\* 5 * 2^attempt seconds after each rate-limited attempt (attempt counted
\* from 0), makes at most 5 attempts, and its
\* caller returns without raising; after a 5th rate-limited attempt
\* classify_note returns {}.
C9_BoundedBackoff ==
  /\ attempt < max_retries
  /\ Len(tries) = attempt
  /\ BackoffOk(tries)
  /\ last_call.client = "ProductionLLM" =>
       /\ last_call.attempts \in 1..max_retries
       /\ BackoffOk(last_call.tries)
       /\ Len(last_call.tries) =
            (IF RateLimited(last_call.answer) THEN last_call.attempts
             ELSE last_call.attempts - 1)
       /\ last_call.outcome.raised = "none"
       /\ last_call.handled = "returned"
       /\ RateLimited(last_call.answer) =>
            /\ last_call.attempts = max_retries
            /\ last_call.outcome = Return(EmptyDict)

C9_Witness ==
  /\ last_call.client = "ProductionLLM"
  /\ last_call.op = "classify"
  /\ last_call.attempts = 5
  /\ RateLimited(last_call.answer)
  /\ Len(last_call.tries) = 5
  /\ [i \in 1..5 |-> last_call.tries[i].wait] = <<5, 10, 20, 40, 80>>
  /\ last_call.outcome = Return(EmptyDict)
  /\ pc = "extract"

C11_SummaryShape ==
  \A stem \in DOMAIN par :
    /\ par[stem].kind = "object"
    /\ \A k \in {"problem", "action", "result"} :
         k \in DOMAIN MapOf(par[stem]) /\ MapOf(par[stem])[k].t = "str"

\* ---- C12
\* C12: validate_classification returns for every input, and the returned
\* type and context are in the closed sets.
C12_ValidatorTotal ==
  result.called =>
    /\ result.raised = "none"
    /\ result.value["type"].t = "str"
    /\ result.value["type"].s \in VALID_TYPES
    /\ result.value["context"].t = "str"
    /\ result.value["context"].s \in VALID_CONTEXTS

\* ---- C13
TypeValidIn(d) ==
  d.is_dict /\ Get(d.map, "type").t = "str" /\ Get(d.map, "type").s \in VALID_TYPES

\* C13: when validate_classification returns, the confidence it stores is the
\* coerced one (the number itself, 0.0 when missing or not coercible); below
\* the threshold the returned type is inbox whatever the input type was; at
\* or above it a valid input type is returned unchanged and an invalid one
\* is inbox.
C13_ConfidenceRule ==
  (result.called /\ result.raised = "none") =>
    LET conf == result.value["confidence"]
        cin  == Get(data.map, "confidence")
    IN  /\ conf.t = "num"
        /\ (data.is_dict /\ cin.t = "num") => conf.n = cin.n
        /\ (~data.is_dict \/ "confidence" \notin DOMAIN data.map
              \/ cin.t \in {"none", "list"} \/ cin = Str("high")) => conf.n = 0
        /\ conf.n < CONFIDENCE_THRESHOLD => result.value["type"] = Str("inbox")
        /\ (conf.n >= CONFIDENCE_THRESHOLD /\ TypeValidIn(data))
             => result.value["type"] = data.map["type"]
        /\ (conf.n >= CONFIDENCE_THRESHOLD /\ ~TypeValidIn(data))
             => result.value["type"] = Str("inbox")

C13_Witness ==
  /\ result.called
  /\ data.is_dict
  /\ Get(data.map, "type") = Str("problems")
  /\ Get(data.map, "confidence") = Num(59)
  /\ result.value["type"] = Str("inbox")
  /\ result.value["confidence"] = Num(59)

\* ---- C14
\* C14: when validate_classification returns, tags is a list of at most 5
\* strings: the string forms of the first 5 input tags in order when the
\* input tags are a list, and empty otherwise.
C14_TagsBounded ==
  (result.called /\ result.raised = "none") =>
    LET tags == result.value["tags"]
        tin  == Get(data.map, "tags")
    IN  /\ tags.t = "list"
        /\ Len(tags.l) <= 5
        /\ \A i \in 1..Len(tags.l) : tags.l[i].t = "str"
        /\ IF data.is_dict /\ tin.t = "list"
           THEN /\ Len(tags.l) = (IF Len(tin.l) < 5 THEN Len(tin.l) ELSE 5)
                /\ \A i \in 1..Len(tags.l) : tags.l[i].s = ToStr(tin.l[i])
           ELSE tags.l = <<>>

C14_Witness ==
  /\ result.called
  /\ data.is_dict
  /\ Get(data.map, "tags") =
       List(<<Num(95), Str("a"), Str("a"), Num(95), Str("a"), Num(95)>>)
  /\ "tags" \in DOMAIN result.value
  /\ result.value["tags"] =
       List(<<Str("0.95"), Str("a"), Str("a"), Str("0.95"), Str("a")>>)

\* ---- C15
\* C15: the mapping passed to validate_classification has the same keys and
\* values after the call as before.
C15_ArgumentUnchanged ==
  (result.called /\ data.is_dict) => result.arg_after = data.map

\* ---- C16
\* C16: the confidence validate_classification returns is a number in [0, 1].
C16_ConfidenceInUnitInterval ==
  (result.called /\ result.raised = "none") =>
    /\ result.value["confidence"].t = "num"
    /\ result.value["confidence"].n >= 0
    /\ result.value["confidence"].n <= 100

\* ---- C17
CompletedIn(st, n) == n \in DOMAIN st /\ st[n].status = "completed"

\* C17: is_processed is true exactly for a name whose record has the status
\* completed.  At the head of the loop a file with such a record is skipped
\* and nothing is called or written for it; any other file (no record, or a
\* record of another status) is read and goes to classification.  A record
\* becomes completed during a run only when the extract_par call for the file
\* returned, which comes after its classify_note call returned.
C17_OnlyCompletedSkips ==
  /\ [](\A n \in ListedNames : is_processed(state, n) <=> CompletedIn(state, n))
  /\ [][(pc = "loop" /\ idx <= NumFiles) =>
          IF CompletedIn(state, FileName(Listing[idx]))
          THEN /\ pc' = "loop" /\ idx' = idx + 1
               /\ state' = state /\ disk' = disk /\ kb' = kb /\ par' = par
               /\ calls' = calls /\ writes' = writes
          ELSE \/ pc' = "classify" /\ idx' = idx
               \/ pc' = "loop" /\ idx' = idx + 1 /\ faults' = faults + 1
                    /\ state' = state]_vars
  /\ [][(pc = "classify" /\ pc' = "extract") =>
          (last_call'.op = "classify" /\ last_call'.handled = "returned"
             /\ last_call'.file = idx)]_vars
  /\ [][(pc # "start" /\ \E n \in ListedNames :
                           CompletedIn(state', n) /\ ~CompletedIn(state, n)) =>
          (pc = "extract" /\ last_call'.op = "extract"
             /\ last_call'.handled = "returned"
             /\ CompletedIn(state', FileName(Listing[idx])))]_vars

\* the file with a failed record was read and classified again, and its
\* summary is about to be extracted
C17_Witness ==
  /\ pc = "extract"
  /\ idx = 1
  /\ FileName(Listing[idx]) \in DOMAIN state
  /\ state[FileName(Listing[idx])].status = "failed"
  /\ last_call.op = "classify"
  /\ last_call.handled = "returned"

\* ---- C19
\* C19: a run that finds the state document missing or corrupt does not end
\* in the construction of StateManager and starts with no completed file.
C19_CorruptStartsEmpty ==
  (pc \notin {"start", "off"} /\ (~disk.exists \/ disk.form # "json"))
    => /\ pc # "crashed"
       /\ done_at_start = {}

\* ---- C18
\* C18: at every instant of a mark_processed call, an interruption included,
\* the state document path holds the complete document it held before the
\* call or the complete serialization of the in-memory state; when the call
\* has returned it holds the serialization of the in-memory state, which has
\* the new record.
C18_AtomicPersist ==
  /\ sm.pc \in {"assigned", "open", "closed", "interrupted"}
       => (sm.path = sm.prev \/ sm.path = File(Serialize(state)))
  /\ sm.pc = "returned"
       => /\ sm.path = File(Serialize(state))
          /\ sm.name \in DOMAIN state
          /\ state[sm.name].status = sm.status

\* interrupted between the write of the temporary file and the rename
C18_Witness ==
  /\ sm.pc = "interrupted"
  /\ sm.tmp = File(Serialize(state))
  /\ sm.prev.exists
  /\ sm.path = sm.prev
  /\ sm.prev # File(Serialize(state))

\* ---- C20
\* C20: at every step of safe_write_file, an interruption included, the
\* destination path holds what it held before the call (or is absent as
\* before) or the complete new content; after the return it holds the new
\* content.
C20_AtomicWrite ==
  /\ fs.pc \in {"called", "open", "closed", "interrupted"}
       => (fs.path = fs.prev \/ fs.path = File(fs.content))
  /\ fs.pc = "returned" => fs.path = File(fs.content)

\* interrupted while the content was half written
C20_Witness ==
  /\ fs.pc = "interrupted"
  /\ fs.tmp.exists
  /\ Len(fs.tmp.data) > 0
  /\ Len(fs.tmp.data) < Len(fs.content)
  /\ fs.prev.exists
  /\ fs.path = fs.prev

\* ---- C23
\* C23: of two pipeline processes started against the same lock file, at most
\* one gets past acquire_lock and into the file loop.
C23_SingleInstance ==
  lk.pc = "run" =>
    \E p \in Procs : lk.proc[p].pc \notin {"main", "loop"}

\* ---- C24
\* C24: a process that reads a lock file holding text that is no process id,
\* or the id of a process that is not running, goes on to write its own
\* process id into the lock file and enters main.
C24_StaleLockTaken ==
  /\ [][\A p \in Procs :
          IF lk.pc = "run" /\ lk.proc[p].pc = "read" /\ lk'.proc[p] # lk.proc[p]
               /\ (lk.file.kind = "garbage"
                     \/ (lk.file.kind = "pid" /\ ~IsRunning(lk.file.pid)))
          THEN lk'.proc[p].pc = "write"
          ELSE TRUE]_vars
  /\ [][\A p \in Procs :
          IF lk.pc = "run" /\ lk.proc[p].pc = "write" /\ lk'.proc[p] # lk.proc[p]
          THEN lk'.file = LockFile("pid", p) /\ lk'.proc[p].pc = "main"
          ELSE TRUE]_vars

\* a process found a stale lock and is in the file loop under its own lock
C24_Witness ==
  /\ lk.pc = "run"
  /\ lk.found.kind \in {"garbage", "pid"}
  /\ \E p \in Procs : lk.proc[p].pc = "loop" /\ lk.file = LockFile("pid", p)

\* ---- C25
\* C25: a process that finishes the file loop ends with status 0, whatever
\* the length of the listing; a process that reads a lock naming a running
\* process ends with status 1 without having loaded the state or entered the
\* loop.
C25_ExitStatus ==
  /\ [](lk.pc = "run" =>
          \A p \in Procs :
            /\ lk.proc[p].pc = "done" => lk.proc[p].status = 0
            /\ lk.proc[p].pc = "refused" =>
                 lk.proc[p].status = 1 /\ ~lk.proc[p].loaded /\ ~lk.proc[p].registered)
  /\ [][\A p \in Procs :
          IF lk.pc = "run" /\ lk.proc[p].pc = "loop" /\ lk.proc[p].left = 0
               /\ lk'.proc[p] # lk.proc[p]
          THEN lk'.proc[p].pc = "done" /\ lk'.proc[p].status = 0
          ELSE TRUE]_vars
  /\ [][\A p \in Procs :
          IF lk.pc = "run" /\ lk.proc[p].pc = "read" /\ lk'.proc[p] # lk.proc[p]
               /\ lk.file.kind = "pid" /\ IsRunning(lk.file.pid)
          THEN lk'.proc[p].pc = "refused" /\ lk'.proc[p].status = 1
          ELSE TRUE]_vars

\* one process was refused by the lock of the other, which finished its loop
C25_Witness ==
  /\ lk.pc = "run"
  /\ \E p, q \in Procs :
       /\ lk.proc[p].pc = "refused" /\ lk.proc[p].status = 1
       /\ lk.proc[q].pc = "done" /\ lk.proc[q].loaded /\ lk.proc[q].status = 0

\* ---- C22
\* C22: when a step of the file in hand raises an exception that the per-file
\* handler absorbs (an I/O failure, or any exception that is no provider
\* signal), the file has no completed record afterwards, neither in the
\* state held in memory nor in the state document, the loop is at the next
\* file, and the process has not exited.
C22_FailedFileUnmarked ==
  [][(pc \in {"loop", "classify", "extract"}
        /\ (faults' = faults + 1
              \/ (last_call' # last_call /\ last_call'.handled = "file_error")))
       => /\ pc' = "loop"
          /\ idx' = idx + 1
          /\ exit_status' = -1
          /\ ~CompletedIn(state', FileName(Listing[idx]))
          /\ ~CompletedIn(load_state(disk'), FileName(Listing[idx]))]_vars

\* ---- C26
\* C26: the listing is ascending and is walked one file at a time: the
\* position moves only to the next file, and only when the file in hand was
\* skipped, was completed with its state saved, or failed; every
\* classify_note / extract_par call is for the file in hand, and a classify
\* call for it is first issued from the head of the loop.
C26_OneAtATime ==
  /\ [](\A i, j \in 1..NumFiles : i < j => Listing[i] < Listing[j])
  /\ [][(pc \in {"loop", "classify", "extract"} /\ idx' # idx)
          => /\ idx' = idx + 1
             /\ pc' = "loop"
             /\ \/ pc = "loop" /\ is_processed(state, FileName(Listing[idx]))
                \/ /\ pc = "extract"
                   /\ count_processed' = count_processed + 1
                   /\ CompletedIn(load_state(disk'), FileName(Listing[idx]))
                \/ faults' = faults + 1
                \/ last_call'.handled = "file_error"]_vars
  /\ [][(last_call' # last_call /\ last_call' # NoCall)
          => last_call'.file = idx /\ pc \in {"classify", "extract"}]_vars
  /\ [][(pc' = "classify" /\ pc # "classify") => (pc = "loop" /\ idx' = idx)]_vars

\* the second file is being classified after the first was completed
C26_Witness ==
  /\ run = 1
  /\ pc = "classify"
  /\ idx = 2
  /\ last_call.file = 2
  /\ CompletedIn(load_state(disk), FileName(Listing[1]))

\* ---- C21
\* C21: when mark_processed has returned for a file, the state document on
\* disk records it completed; a completed record on disk stays, through an
\* interruption and into the next run; a file with a completed record on
\* disk is never read or classified again; and after an interruption every
\* file name before the one in flight is completed on disk, but for the files
\* whose processing failed: the next run works again on the file in flight
\* only.
C21_CrashRecovery ==
  /\ [][count_processed' = count_processed + 1
          => CompletedIn(load_state(disk'), FileName(Listing[idx]))]_vars
  /\ [][\A n \in ListedNames :
          CompletedIn(load_state(disk), n) => CompletedIn(load_state(disk'), n)]_vars
  /\ [](pc \in {"classify", "extract"}
          => ~CompletedIn(load_state(disk), FileName(Listing[idx])))
  /\ [](killed > 0 =>
          Cardinality({n \in {FileName(Listing[j]) : j \in 1..(killed - 1)} :
                         ~CompletedIn(load_state(disk), n)}) <= faults)

\* the run after an interruption at the second file skipped the first file,
\* which the interrupted run had classified, and works on the second again
C21_Witness ==
  /\ run = 2
  /\ killed = 2
  /\ pc = "extract"
  /\ idx = 2
  /\ done_at_start = {FileName(Listing[1])}
  /\ \E k \in DOMAIN kb : k[2] = FileName(Listing[1])
  /\ faults = 0

\* ---- C27
\* C27: the file written to the classified store ends with the note as it
\* was in the input directory, unchanged, and what precedes it is the
\* metadata block; prepend_frontmatter(content, metadata) ends with content.
C27_BodyUnchanged ==
  fs.pc = "written" =>
    /\ Len(fs.final_content) >= Len(fs.original_content)
    /\ SubSeq(fs.final_content, Len(fs.final_content) - Len(fs.original_content) + 1,
              Len(fs.final_content)) = fs.original_content
    /\ Len(fs.dest.data) >= Len(fs.note)
    /\ SubSeq(fs.dest.data, Len(fs.dest.data) - Len(fs.note) + 1, Len(fs.dest.data))
         = fs.note

\* ---- C28
\* C28: MockLLM.classify_note gives type problems, context debugging and
\* confidence 0.95 whenever the content holds error or fail, or the path
\* holds debug, in any case of letters and whatever other keywords are
\* present; it gives type inbox with confidence 0.5 when neither the content
\* nor the path holds a keyword.
C28_MockClassify ==
  fs.pc \in {"classified", "written"} =>
    /\ (Has("error", fs.context_snippet) \/ Has("fail", fs.context_snippet)
          \/ Has("debug", fs.rel_path))
         => /\ MapOf(fs.classification_raw)["type"] = Str("problems")
            /\ MapOf(fs.classification_raw)["context"] = Str("debugging")
            /\ MapOf(fs.classification_raw)["confidence"] = Num(95)
    /\ (\A k \in {"error", "fail", "api", "guide", "think", "reflect"} :
           ~Has(k, fs.context_snippet))
         /\ ~Has("debug", fs.rel_path) /\ ~Has("reference", fs.rel_path)
         => /\ MapOf(fs.classification_raw)["type"] = Str("inbox")
            /\ MapOf(fs.classification_raw)["confidence"] = Num(50)

\* upper-case ERROR beside api under a reference path: classified problems
C28_Witness ==
  /\ fs.pc = "classified"
  /\ fs.rel_path = <<"reference">>
  /\ \E i, j \in DOMAIN fs.context_snippet :
       fs.context_snippet[i] = "ERROR" /\ fs.context_snippet[j] = "api"
  /\ "type" \in DOMAIN MapOf(fs.classification_raw)
  /\ MapOf(fs.classification_raw)["type"] = Str("problems")

\* ---- C30
\* C30: every classify_note call, on whichever provider, is given the first
\* MAX_CONTENT_CHARS characters of the note as read, and every extract_par
\* call the whole note as read.
C30_ContentPassed ==
  /\ last_call.op = "classify" =>
       /\ last_call.content =
            Slice(read_file(FileWords(Listing[last_call.file])), MAX_CONTENT_CHARS)
       /\ Len(last_call.content) <= Len(read_file(FileWords(Listing[last_call.file])))
  /\ last_call.op = "extract" =>
       last_call.content = read_file(FileWords(Listing[last_call.file]))

\* after two demotions LocalLLM was given the head only of a note longer than
\* MAX_CONTENT_CHARS to classify
C30_Witness ==
  /\ last_call.op = "classify"
  /\ last_call.client = "LocalLLM"
  /\ Len(switches) = 2
  /\ switches[2].file = last_call.file
  /\ last_call.content # read_file(FileWords(Listing[last_call.file]))
  /\ last_call.content = <<"error", "LF", "x">>

\* ---- C29
\* a fenced block qualifies when, its language tag stripped, it parses as a
\* JSON object or array
Qualifies(match) ==
  /\ JsonOk(StripLangTag(match))
  /\ JsonLoads(StripLangTag(match)).val.kind \in {"object", "array"}

\* the span of the stripped text from its first opening brace or bracket to
\* the last closing one of the same kind, <<>> when there is none
SpanOf(t) ==
  LET opens == {i \in DOMAIN t : t[i] \in {LBRACE, LBRACK}}
      closes == {i \in DOMAIN t :
                   opens # {} /\ i > Min(opens)
                     /\ t[i] = (IF t[Min(opens)] = LBRACE THEN RBRACE ELSE RBRACK)}
  IN  IF closes = {} THEN <<>> ELSE SubSeq(t, Min(opens), Max(closes))

C31_StepOrder ==
  /\ [][\A n \in ListedNames :
          (pc # "start" /\ ~CompletedIn(state, n) /\ CompletedIn(state', n)) =>
            /\ pc = "extract"
            /\ n = FileName(Listing[idx])
            /\ <<classification["type"].s, n>> \in DOMAIN kb
            /\ kb[<<classification["type"].s, n>>] = [meta |-> classification, body |-> idx]
            /\ kb' = kb
            /\ n \in DOMAIN par'
            /\ par'[n] = last_call'.outcome.value
            /\ state'[n].classification = classification]_vars
  /\ [][\A n \in ListedNames :
          (~CompletedIn(load_state(disk), n) /\ CompletedIn(load_state(disk'), n)) =>
            /\ pc = "extract"
            /\ CompletedIn(state', n)
            /\ n \in DOMAIN par']_vars
  /\ [][par' # par =>
          /\ pc = "extract"
          /\ <<classification["type"].s, FileName(Listing[idx])>> \in DOMAIN kb]_vars
  /\ [](\A st \in {state, load_state(disk)} : \A n \in ListedNames :
          CompletedIn(st, n) =>
            /\ n \in DOMAIN par
            /\ <<st[n].classification["type"].s, n>> \in DOMAIN kb
            /\ kb[<<st[n].classification["type"].s, n>>].meta = st[n].classification)

\* the first file went through classification, copy, summary and record, and
\* the loop stands at the second file
C31_Witness ==
  /\ pc = "loop"
  /\ idx = 2
  /\ count_processed = 1
  /\ CompletedIn(load_state(disk), FileName(Listing[1]))
  /\ FileName(Listing[1]) \in DOMAIN par
  /\ FileName(Listing[1]) \in DOMAIN state
  /\ <<"problems", FileName(Listing[1])>> \in DOMAIN kb
  /\ kb[<<"problems", FileName(Listing[1])>>].meta
       = state[FileName(Listing[1])].classification

\* ---- C32
\* C32: when a call on AntigravityLLM raises BlockingIOError and no Groq key is
\* set or GroqLLM cannot be constructed, main switches to LocalLLM, recording
\* no switch to GroqLLM, and stays on the same call of the same file, the run
\* going on; when LocalLLM cannot be constructed either the run ends with exit
\* status 1, and in this case only.
C32_TierSkip ==
  (/\ last_call.client = "AntigravityLLM"
   /\ last_call.outcome.raised = "BlockingIOError"
   /\ ~(env.groq /\ last_call.groq_ok))
    => IF last_call.local_ok
       THEN /\ last_call.handled = "switch"
            /\ llm_client = "LocalLLM"
            /\ pc = last_call.op
            /\ idx = last_call.file
            /\ exit_status = -1
            /\ switches # <<>>
            /\ switches[Len(switches)] =
                 [file |-> idx, from |-> "AntigravityLLM", to |-> "LocalLLM",
                  signal |-> "BlockingIOError"]
            /\ \A i \in DOMAIN switches : switches[i].to # "GroqLLM"
       ELSE /\ last_call.handled = "exit"
            /\ pc = "exited"
            /\ exit_status = 1

\* the Groq key is set but GroqLLM could not be constructed: the extract call
\* of the second file goes on with LocalLLM
C32_Witness ==
  /\ last_call.client = "AntigravityLLM"
  /\ last_call.outcome.raised = "BlockingIOError"
  /\ env.groq
  /\ ~last_call.groq_ok
  /\ last_call.op = "extract"
  /\ last_call.file = 2
  /\ pc = "extract"
  /\ llm_client = "LocalLLM"
  /\ exit_status = -1

\* ---- C33
\* C33: when a run ends in which nothing failed, every listed file whose name
\* was not completed at the start has been handled in that run, files of the
\* same base name included: the run counts as many processed files as the
\* listing has such files.
C33_SharedNamesHandled ==
  (pc = "finished" /\ faults = 0 /\ killed = 0) =>
    count_processed =
      Cardinality({i \in 1..NumFiles : FileName(Listing[i]) \notin done_at_start})

\* ---- C34
\* C34: at any time each input file name has a copy under at most one type
\* directory of the classified store.
C34_OneTypePerName ==
  \A n \in ListedNames : Cardinality({k \in DOMAIN kb : k[2] = n}) <= 1

\* ---- C35
\* C35: no classify loop and no extract loop runs forever: from some point on
\* the process is in neither.  A handled call either leaves its loop (the call
\* returned, the file failed or the run exited) or is retried after a switch
\* to a provider later in the order Antigravity < Groq < Local; no file sees
\* more than two switches, nor two switches away from the same provider.
C35_LoopsTerminate ==
  /\ <>[](~InCall)
  /\ [][(InCall /\ last_call' # last_call) =>
          IF last_call'.handled = "switch"
          THEN /\ Rank(llm_client') > Rank(llm_client)
               /\ Rank(llm_client') \in {2, 3}
               /\ pc' = pc /\ idx' = idx
          ELSE /\ pc' # pc
               /\ llm_client' = llm_client]_vars
  /\ [](\A i, j \in DOMAIN switches :
          /\ Cardinality({k \in DOMAIN switches : switches[k].file = switches[i].file}) <= 2
          /\ (i # j) => switches[i].from # switches[j].from)

\* the extract call of the second file was tried on all three providers of
\* the chain and returned on the last
C35_Witness ==
  /\ Len(switches) = 2
  /\ switches[1].file = 2 /\ switches[1].from = "AntigravityLLM" /\ switches[1].to = "GroqLLM"
  /\ switches[2].file = 2 /\ switches[2].from = "GroqLLM" /\ switches[2].to = "LocalLLM"
  /\ last_call.client = "LocalLLM"
  /\ last_call.op = "extract"
  /\ last_call.handled = "returned"
  /\ pc = "loop"
  /\ idx = 3

\* ---- C36
\* C36: within a run a step keeps every record of the in-memory state, and
\* changes none but that of the file at hand; every record has the status
\* completed and a validated classification; the step in which a file fails
\* leaves that file without a record; and the completed names of the state
\* document never shrink, within a run or across runs.
C36_OnlyAdds ==
  /\ [][pc' # "start" =>
          \A n \in DOMAIN state :
            /\ n \in DOMAIN state'
            /\ (pc # "extract" \/ n # FileName(Listing[idx])) => state'[n] = state[n]]_vars
  /\ [](\A st \in {state, load_state(disk)} : \A n \in DOMAIN st :
          /\ st[n].status = "completed"
          /\ st[n].classification # EmptyMap
          /\ st[n].classification["type"].s \in VALID_TYPES
          /\ st[n].classification["context"].s \in VALID_CONTEXTS
          /\ st[n].classification["tags"].t = "list"
          /\ st[n].classification["confidence"].t = "num")
  /\ [][(pc \in {"loop", "classify", "extract"}
           /\ (faults' = faults + 1
                 \/ (last_call' # last_call /\ last_call'.handled = "file_error")))
          => FileName(Listing[idx]) \notin DOMAIN state']_vars
  /\ [][CompletedNames(load_state(disk)) \subseteq CompletedNames(load_state(disk'))]_vars

\* ---- C37
\* C37: validate_classification turns {} and every non-mapping into type
\* inbox, context practice, no tags, confidence 0.0.  When a classify call
\* returns {} and the copy can be written, the copy goes to kb/inbox with
\* that classification and the file moves on to extraction; when extraction
\* returns and summary and state document can be written, the file is
\* recorded completed with that classification; and no file whose name is
\* completed in the state document is classified again.
C37_DegradedFinal ==
  /\ [](\A v \in {EmptyDict, JArray(<<>>), JArray(<<EmptyDict>>), JScalar} :
          validate_classification(v) = ClassificationFallback)
  /\ [][(/\ pc = "classify"
         /\ last_call' # last_call
         /\ last_call'.handled = "returned"
         /\ last_call'.outcome.value = EmptyDict
         /\ faults' = faults)
          => /\ pc' = "extract"
             /\ idx' = idx
             /\ classification' = ClassificationFallback
             /\ kb'[<<"inbox", FileName(Listing[idx])>>] =
                  [meta |-> ClassificationFallback, body |-> idx]]_vars
  /\ [][(/\ pc = "extract"
         /\ classification = ClassificationFallback
         /\ last_call' # last_call
         /\ last_call'.handled = "returned"
         /\ faults' = faults)
          => /\ CompletedIn(load_state(disk'), FileName(Listing[idx]))
             /\ state'[FileName(Listing[idx])].classification = ClassificationFallback
             /\ load_state(disk')[FileName(Listing[idx])].classification
                  = ClassificationFallback]_vars
  /\ [][(last_call' # last_call /\ last_call'.op = "classify")
          => ~CompletedIn(load_state(disk), FileName(Listing[last_call'.file]))]_vars

\* the second run skipped the first file, which the first run had completed
\* with the degraded classification
C37_Witness ==
  /\ run = 2
  /\ pc = "loop"
  /\ idx = 2
  /\ FileName(Listing[1]) \in done_at_start
  /\ CompletedIn(load_state(disk), FileName(Listing[1]))
  /\ load_state(disk)[FileName(Listing[1])].classification = ClassificationFallback
  /\ <<"inbox", FileName(Listing[1])>> \in DOMAIN kb
  /\ kb[<<"inbox", FileName(Listing[1])>>].meta = ClassificationFallback
  /\ ~calls

\* ---- C38
\* C38: once a run has started, and when it has ended, the input directory
\* holds the files it held before the run, with the bytes they had.
C38_InputUntouched ==
  fs.pc \in {"loop", "extract", "finished", "exited"} =>
    /\ {p \in DOMAIN fs.tree : p[1] = fs.input_dir}
         = {p \in DOMAIN fs.before : p[1] = fs.input_dir}
    /\ \A p \in DOMAIN fs.before : p[1] = fs.input_dir => fs.tree[p] = fs.before[p]

\* ---- C39
\* C39: when a process ends that wrote the lock, whether main returned (end of
\* the loop, no input directory), the run exited with status 1 or an
\* exception ended it, no lock file is left; a process that ends without
\* having written the lock leaves the lock file as it is; a process is
\* refused only by a lock that names a running process, and the lock file
\* never names a process that has ended.
C39_LockRelease ==
  /\ [][\A p \in Procs :
          (/\ lk.pc = "run"
           /\ lk.proc[p].pc \notin {"refused", "crashed", "exited", "done"}
           /\ lk'.proc[p].pc \in {"refused", "crashed", "exited", "done"})
            => /\ lk.proc[p].pc \in {"main", "loop"} => lk'.file.kind = "none"
               /\ lk.proc[p].pc \notin {"main", "loop"} => lk'.file = lk.file
               /\ lk'.proc[p].pc = "refused" =>
                    (lk.file.kind = "pid" /\ IsRunning(lk.file.pid)
                       /\ lk.file.pid # p)]_vars
  /\ [](lk.pc = "run" =>
          \A q \in Procs :
            lk.proc[q].pc \in {"refused", "crashed", "exited", "done"}
              => lk.file # LockFile("pid", q))

\* one process was refused by the lock of the other; the other then left by
\* sys.exit(1) in the file loop, and no lock file is left
C39_Witness ==
  /\ lk.pc = "run"
  /\ lk.file.kind = "none"
  /\ \E p, q \in Procs :
       /\ lk.proc[p].pc = "refused"
       /\ ~lk.proc[p].registered
       /\ lk.proc[q].pc = "exited"
       /\ lk.proc[q].registered

\* C40: whatever the state document contained at load, the in-memory state
\* is a mapping with a processed_files mapping whose records each carry a
\* status, and no call of is_processed, get_file_state or mark_processed
\* raises.
C40_StateWellShaped ==
  sm.pc = "ready" => (WellShaped(sm.st) /\ sm.out.raised = "")
====
